---------------------------- MODULE Spec2Model ----------------------------
(***************************************************************************)
(* Signal Quality AI: the scoring pipeline                                 *)
(*   analyzeSignals -> enrichSignalsWithContext -> identifyPatterns        *)
(*   -> calculateQualityScore -> generateActionRecommendation              *)
(*                                                                         *)
(* Conventions of the model                                                *)
(*  - A JavaScript object is a TLA+ record that holds only the fields the  *)
(*    object has: an undefined field is a field outside DOMAIN.            *)
(*  - Fractions are kept exact.  A multiplier is a pair <<n, d>> standing  *)
(*    for n/d; a confidence is in hundredths; a recency is in hundredths;  *)
(*    a bounce rate is in hundredths.  Math.round is Round (half up).      *)
(*  - A string that the code only searches for keywords (page, asset) is   *)
(*    the set of the keywords it contains.                                 *)
(***************************************************************************)
EXTENDS Integers, Sequences, FiniteSets, TLC

VARIABLES
    pc,               \* position of the request in the pipeline
    signals,          \* req.body.signals
    prospect,         \* req.body.prospect
    analyzedSignals,  \* output of analyzeSignals
    enrichedSignals,  \* output of enrichSignalsWithContext (grows in its loop)
    patterns,         \* output of identifyPatterns
    scoringResult,    \* output of calculateQualityScore
    recommendation,   \* output of generateActionRecommendation
    knownPatterns,    \* patternMatcher.ts module variable (the cached library)
    patternsFile,     \* data/patterns/known-patterns.json
    quantOutcome,     \* how a call of calculateQuantitativeScore ended
    llmProvider,      \* process.env.LLM_PROVIDER || 'mock'
    extractions,      \* how the extraction of each signal ended, in loop order
    options,          \* req.body.options, read by generateActionRecommendation
    now,              \* new Date(): the wall clock, read since the first request
    firstRun,         \* what an earlier, identical request was answered
    requests,         \* the requests of a serving process, each with the locals of its handler
    libraryLoads      \* how often loadKnownPatterns has read the library from its source

vars == <<pc, signals, prospect, analyzedSignals, enrichedSignals, patterns,
          scoringResult, recommendation, knownPatterns, patternsFile, quantOutcome,
          llmProvider, extractions, options, now, firstRun, requests, libraryLoads>>

\* The value of a variable that holds no object yet.
None == [none |-> TRUE]

\* The clock when the first request arrives.  A Date is kept as the whole
\* hours and the milliseconds within the hour that have passed since then.
Epoch == [hours |-> 0, millis |-> 0]

Has(obj, f) == f \in DOMAIN obj

\* Math.round(n/d) for d > 0: the nearest integer, halves towards +infinity.
Round(n, d) ==
    LET q == n \div d
        r == n % d
    IN  IF 2 * r >= d THEN q + 1 ELSE q

Min(a, b) == IF a <= b THEN a ELSE b
Max(a, b) == IF a >= b THEN a ELSE b

RECURSIVE SumSeq(_)
SumSeq(s) == IF s = <<>> THEN 0 ELSE Head(s) + SumSeq(Tail(s))

(***************************************************************************)
(* temporal.ts                                                             *)
(* A timestamp is kept as the whole number of hours it lies before now     *)
(* (negative: in the future).                                              *)
(***************************************************************************)

\* differenceInDays(now, date): full days, truncated towards zero
DaysAgo(hoursAgo) ==
    IF hoursAgo >= 0 THEN hoursAgo \div 24 ELSE 0 - ((0 - hoursAgo) \div 24)

\* Math.pow(0.5, daysAgo / 7) in hundredths, for daysAgo = 0..35
RecencyTable ==
    << 100, 91, 82, 74, 67, 61, 55, 50, 45, 41, 37, 34, 30, 28, 25, 23, 21, 19,
       17, 15, 14, 12, 11, 10, 9, 8, 8, 7, 6, 6, 5, 5, 4, 4, 3, 3 >>

\* calculateRecencyScore(signal.timestamp), in hundredths
calculateRecencyScore(signal) ==
    IF ~Has(signal, "timestamp") THEN 50
    ELSE LET daysAgo == DaysAgo(signal.timestamp)
         IN  IF daysAgo < 0 THEN 100
             ELSE Max(0, Min(100, RecencyTable[daysAgo + 1]))

\* getTimeContext(signal.timestamp) without its display string
getTimeContext(signal) ==
    IF ~Has(signal, "timestamp")
    THEN [hoursAgo |-> 0, daysAgo |-> 0, isRecent |-> FALSE, isVeryRecent |-> FALSE]
    ELSE [ hoursAgo |-> signal.timestamp,
           daysAgo |-> DaysAgo(signal.timestamp),
           isRecent |-> DaysAgo(signal.timestamp) < 7,
           isVeryRecent |-> signal.timestamp < 48 ]

determineUrgency(signal) ==
    LET daysAgo == getTimeContext(signal).daysAgo
    IN  IF daysAgo < 2 THEN "high"
        ELSE IF daysAgo < 7 THEN "medium"
        ELSE "low"

(***************************************************************************)
(* signalAnalyzer: calculateQuantitativeScore                              *)
(* content is [length, keywords]; page, asset, details and toRole are the   *)
(* sets of the (lower-case) keywords they contain.                         *)
(***************************************************************************)

\* signal.metadata as SignalMetadata | undefined, read with meta?.field
Meta(signal) == IF Has(signal, "metadata") THEN signal.metadata ELSE [f \in {} |-> f]

\* a string field used as a condition: set and not empty
HasContent(signal) == Has(signal, "content") /\ signal.content.length > 0

\* a numeric field used as a condition: set and not 0
Truthy(obj, f) == Has(obj, f) /\ obj[f] # 0

Keywords(obj, f) == IF Has(obj, f) THEN obj[f] ELSE {}

\* metadata is z.record(z.any()): a value is a string (its text and the
\* keywords its lower-case form contains) or a number
Str(text, keywords) == [kind |-> "string", text |-> text, keywords |-> keywords]
Num(value) == [kind |-> "number", value |-> value]

\* meta?.field used as a condition
TruthyValue(meta, f) ==
    Has(meta, f) /\ (IF meta[f].kind = "string" THEN meta[f].text # ""
                     ELSE meta[f].value # 0)

\* meta.field.toLowerCase() is not a function unless the value is a string
ToLowerCaseThrows(meta, f) == TruthyValue(meta, f) /\ meta[f].kind # "string"

\* the exception a scorer leaves with, in place of its number
TypeError == [threw |-> "TypeError"]

\* Math.max(0, Math.min(100, baseScore))
Clamp100(baseScore) == Max(0, Min(100, baseScore))

scoreLinkedInEngagement(signal) ==
    LET action == IF Has(signal, "action") THEN signal.action ELSE ""
        base == CASE action = "commented" -> 85
                  [] action = "connection_request" -> 70
                  [] action = "share" -> 75
                  [] action \in {"like", "liked"} -> 30
                  [] action = "follow" -> 40
                  [] OTHER -> 50
        lengthAdj == IF action = "commented" /\ HasContent(signal)
                     THEN IF signal.content.length > 200 THEN 10
                          ELSE IF signal.content.length < 30 THEN -15
                          ELSE 0
                     ELSE 0
        topicAdj == IF TruthyValue(Meta(signal), "postTopic")
                       /\ Meta(signal).postTopic.keywords
                            \cap {"sales", "automation", "productivity", "crm", "revenue"} # {}
                    THEN 5 ELSE 0
    IN  IF ToLowerCaseThrows(Meta(signal), "postTopic") THEN TypeError
        ELSE Clamp100(base + lengthAdj + topicAdj)

MutRepeatBonusAfterThird(signal) ==
    LET page == Keywords(signal, "page")
        base == IF page \cap {"/pricing", "/demo", "/enterprise", "/contact",
                              "/request-trial"} # {} THEN 75
                ELSE IF page \cap {"/features", "/case-studies", "/customers",
                                   "/integrations"} # {} THEN 55
                ELSE IF page \cap {"/blog", "/about", "/careers"} # {} THEN 25
                ELSE 40
        durationAdj == IF Truthy(signal, "duration")
                       THEN IF signal.duration > 300 THEN 15
                            ELSE IF signal.duration > 120 THEN 10
                            ELSE IF signal.duration > 60 THEN 5
                            ELSE IF signal.duration < 30 THEN -10
                            ELSE 0
                       ELSE 0
        visitAdj == IF Truthy(signal, "visitNumber") /\ signal.visitNumber > 3
                    THEN Min(20, signal.visitNumber * 5) ELSE 0
        bounceAdj == IF Has(signal, "bounceRate") /\ signal.bounceRate > 80
                     THEN -20 ELSE 0
        tierAdj == IF Has(Meta(signal), "tier_viewed")
                      /\ Meta(signal).tier_viewed = "enterprise" THEN 10 ELSE 0
    IN  Clamp100(base + durationAdj + visitAdj + bounceAdj + tierAdj)

scoreWebsiteVisit(signal) ==
    LET page == Keywords(signal, "page")
        base == IF page \cap {"/pricing", "/demo", "/enterprise", "/contact",
                              "/request-trial"} # {} THEN 75
                ELSE IF page \cap {"/features", "/case-studies", "/customers",
                                   "/integrations"} # {} THEN 55
                ELSE IF page \cap {"/blog", "/about", "/careers"} # {} THEN 25
                ELSE 40
        durationAdj == IF Truthy(signal, "duration")
                       THEN IF signal.duration > 300 THEN 15
                            ELSE IF signal.duration > 120 THEN 10
                            ELSE IF signal.duration > 60 THEN 5
                            ELSE IF signal.duration < 30 THEN -10
                            ELSE 0
                       ELSE 0
        visitAdj == IF Truthy(signal, "visitNumber") /\ signal.visitNumber > 1
                    THEN Min(20, signal.visitNumber * 5) ELSE 0
        bounceAdj == IF Has(signal, "bounceRate") /\ signal.bounceRate > 80
                     THEN -20 ELSE 0
        tierAdj == IF Has(Meta(signal), "tier_viewed")
                      /\ Meta(signal).tier_viewed = "enterprise" THEN 10 ELSE 0
    IN  Clamp100(base + durationAdj + visitAdj + bounceAdj + tierAdj)

scoreJobChange(signal) ==
    LET meta == Meta(signal)
        base == IF Has(meta, "seniorityIncrease") /\ meta.seniorityIncrease THEN 65 ELSE 50
        roleAdj == IF Keywords(signal, "toRole")
                        \cap {"vp", "director", "head of", "chief", "cxo"} # {}
                   THEN 15 ELSE 0
        daysAdj == IF Has(signal, "daysInRole")
                   THEN IF signal.daysInRole >= 15 /\ signal.daysInRole <= 90 THEN 20
                        ELSE IF signal.daysInRole < 15 THEN 5
                        ELSE IF signal.daysInRole > 180 THEN -10
                        ELSE 0
                   ELSE 0
        stageAdj == IF Has(meta, "companyStage")
                       /\ meta.companyStage \in {"series_a", "series_b", "series_c"}
                    THEN 10 ELSE 0
    IN  Clamp100(base + roleAdj + daysAdj + stageAdj)

scoreContentDownload(signal) ==
    LET asset == Keywords(signal, "asset")
        base == IF asset \cap {"implementation", "enterprise", "security", "compliance",
                               "migration"} # {} THEN 85
                ELSE IF asset \cap {"case study", "whitepaper", "guide", "playbook"} # {}
                     THEN 70
                ELSE IF asset \cap {"ebook", "report", "infographic"} # {} THEN 50
                ELSE 60
        topicAdj == IF TruthyValue(Meta(signal), "topic")
                       /\ Meta(signal).topic.keywords
                            \cap {"roi", "integration", "automation", "productivity"} # {}
                    THEN 5 ELSE 0
    IN  IF ToLowerCaseThrows(Meta(signal), "topic") THEN TypeError
        ELSE Clamp100(base + topicAdj)

scoreEmailInteraction(signal) ==
    LET action == IF Has(signal, "action") THEN signal.action ELSE ""
        meta == Meta(signal)
        base == CASE action = "reply" -> 95
                  [] action = "clicked" -> 70
                  [] action = "opened" ->
                       IF Has(signal, "clickedLink") /\ signal.clickedLink THEN 70 ELSE 25
                  [] OTHER -> 20
        linked == IF Has(meta, "linkType") /\ meta.linkType = "calendar" THEN 90
                  ELSE IF Has(meta, "linkType") /\ meta.linkType = "pricing" THEN base + 10
                  ELSE base
    IN  Clamp100(linked)

scoreCompanyNews(signal) ==
    LET newsType == IF Has(signal, "newsType") THEN signal.newsType ELSE ""
        base == CASE newsType = "funding" ->
                       IF "Series" \in Keywords(signal, "details") THEN 85 ELSE 75
                  [] newsType = "expansion" -> 70
                  [] newsType = "leadership_change" -> 60
                  [] newsType = "acquisition" -> 55
                  [] newsType = "product_launch" -> 50
                  [] OTHER -> 40
    IN  Clamp100(base)

scoreHiringSignals(signal) ==
    LET meta == Meta(signal)
        base == IF TruthyValue(meta, "department")
                   /\ meta.department.keywords \cap {"sales", "revenue",
                           "business development", "customer success"} # {}
                THEN 70 ELSE 60
        volumeAdj == IF Truthy(meta, "rolesCount")
                     THEN IF meta.rolesCount >= 5 THEN 20
                          ELSE IF meta.rolesCount >= 2 THEN 10
                          ELSE 0
                     ELSE 0
    IN  IF ToLowerCaseThrows(meta, "department") THEN TypeError
        ELSE Clamp100(base + volumeAdj)

scoreTechStackChange(signal) ==
    LET meta == Meta(signal)
        base == IF Has(meta, "category") /\ meta.category \in {"CRM", "sales"}
                THEN 75 ELSE 55
        actionAdj == IF Has(meta, "action") /\ meta.action = "evaluation" THEN 15
                     ELSE IF Has(meta, "action") /\ meta.action = "removed" THEN 20
                     ELSE 0
    IN  Clamp100(base + actionAdj)

scoreIntentData(signal) ==
    LET meta == Meta(signal)
        intent == IF Has(meta, "intent") THEN meta.intent ELSE ""
        base == CASE intent = "competitor_comparison" -> 80
                  [] intent = "pricing_research" -> 75
                  [] intent = "general_research" -> 55
                  [] OTHER -> 50
    IN  Clamp100(base)

calculateQuantitativeScore(signal) ==
    CASE signal.type = "linkedin_engagement" -> scoreLinkedInEngagement(signal)
      [] signal.type = "website_visit" -> scoreWebsiteVisit(signal)
      [] signal.type = "job_change" -> scoreJobChange(signal)
      [] signal.type = "content_download" -> scoreContentDownload(signal)
      [] signal.type = "email_interaction" -> scoreEmailInteraction(signal)
      [] signal.type = "company_news" -> scoreCompanyNews(signal)
      [] signal.type = "hiring_signals" -> scoreHiringSignals(signal)
      [] signal.type = "tech_stack_change" -> scoreTechStackChange(signal)
      [] signal.type = "intent_data" -> scoreIntentData(signal)
      [] OTHER -> 50

\* whether the scorer the switch dispatches to leaves with an exception
QuantThrows(signal) ==
    CASE signal.type = "linkedin_engagement" -> ToLowerCaseThrows(Meta(signal), "postTopic")
      [] signal.type = "content_download" -> ToLowerCaseThrows(Meta(signal), "topic")
      [] signal.type = "hiring_signals" -> ToLowerCaseThrows(Meta(signal), "department")
      [] OTHER -> FALSE

(***************************************************************************)
(* signalAnalyzer: analyzeSignal, analyzeSignals                           *)
(***************************************************************************)

RECURSIVE SelectSeq2(_, _)
\* allSignals.filter(s => s.type === type)
SelectSeq2(s, type) ==
    IF s = <<>> THEN <<>>
    ELSE IF Head(s).type = type THEN <<Head(s)>> \o SelectSeq2(Tail(s), type)
    ELSE SelectSeq2(Tail(s), type)

RECURSIVE TimesOf(_)
\* similarSignals.map(s => s.timestamp).filter(t => !!t), as times (minus hours ago)
TimesOf(s) ==
    IF s = <<>> THEN <<>>
    ELSE IF Has(Head(s), "timestamp") THEN <<0 - Head(s).timestamp>> \o TimesOf(Tail(s))
    ELSE TimesOf(Tail(s))

RECURSIVE InsertAsc(_, _)
InsertAsc(x, sorted) ==
    IF sorted = <<>> THEN <<x>>
    ELSE IF Head(sorted) <= x THEN <<Head(sorted)>> \o InsertAsc(x, Tail(sorted))
    ELSE <<x>> \o sorted

RECURSIVE SortAsc(_)
\* .sort((a, b) => a.getTime() - b.getTime())
SortAsc(s) ==
    IF s = <<>> THEN <<>>
    ELSE InsertAsc(s[Len(s)], SortAsc(SubSeq(s, 1, Len(s) - 1)))

\* the velocity analyzeSignal computes inline from the first and the last gap
InlineVelocity(similarSignals) ==
    IF Len(similarSignals) > 1
    THEN LET sortedTimestamps == SortAsc(TimesOf(similarSignals))
             n == Len(sortedTimestamps)
         IN  IF n >= 3
             THEN LET firstGap == sortedTimestamps[2] - sortedTimestamps[1]
                      lastGap == sortedTimestamps[n] - sortedTimestamps[n - 1]
                  IN  IF 10 * lastGap < 7 * firstGap THEN "increasing"
                      ELSE IF 10 * lastGap > 13 * firstGap THEN "decreasing"
                      ELSE "stable"
             ELSE "stable"
    ELSE "stable"

analyzeSignal(signal, allSignals) ==
    LET similarSignals == SelectSeq2(allSignals, signal.type)
        tc == getTimeContext(signal)
    IN  [ type |-> signal.type,
          rawData |-> signal,
          quantitativeScore |-> calculateQuantitativeScore(signal),
          qualitativeContext |-> [urgency |-> determineUrgency(signal)],
          temporalFactors |->
            [ recency |-> calculateRecencyScore(signal),
              frequency |-> Len(similarSignals),
              velocity |-> InlineVelocity(similarSignals),
              hoursAgo |-> tc.hoursAgo,
              daysAgo |-> tc.daysAgo,
              isRecent |-> tc.isRecent,
              isVeryRecent |-> tc.isVeryRecent ] ]

analyzeSignals(signalsIn) ==
    [i \in 1..Len(signalsIn) |-> analyzeSignal(signalsIn[i], signalsIn)]

(***************************************************************************)
(* llmExtractor.ts                                                         *)
(* An extraction result holds painPoints, urgency, specificity,            *)
(* buyingStage, sentiment, falsePositiveRisk and confidence (hundredths);  *)
(* its explanatory texts are left out.  A pain point sentence is kept as   *)
(* the keyword that found it.                                               *)
(***************************************************************************)

\* type.includes(word), for the types and the words of this model
TypeIncludes(type, word) == type = word

painKeywords ==
    << "struggling", "problem", "issue", "challenge", "need", "waste", "slow",
       "inefficient", "difficult", "frustrated" >>

MutNoPlaceholderPainPoint(signal, p) ==
    LET type == signal.type
        content == IF HasContent(signal) THEN signal.content
                   ELSE [length |-> 0, keywords |-> {}]
        action == IF Has(signal, "action") THEN signal.action ELSE ""
        page == Keywords(signal, "page")
        duration == IF Truthy(signal, "duration") THEN signal.duration ELSE 0
        visitNumber == IF Truthy(signal, "visitNumber") THEN signal.visitNumber ELSE 1
        found == SelectSeq(painKeywords, LAMBDA k : k \in content.keywords)
        painPoints ==
            found
        urgency ==
            IF content.keywords \cap {"urgent", "asap", "immediately", "quickly",
                                      "deadline", "yesterday", "now"} # {} THEN "high"
            ELSE IF TypeIncludes(type, "pricing") \/ TypeIncludes(type, "demo")
                      \/ visitNumber >= 3 THEN "high"
            ELSE IF TypeIncludes(type, "job_change") /\ Truthy(signal, "daysInRole")
                      /\ signal.daysInRole < 90 THEN "medium"
            ELSE IF duration < 30 \/ TypeIncludes(type, "like") \/ action = "like"
                 THEN "low"
            ELSE "medium"
        specificity ==
            IF content.length > 100 \/ TypeIncludes(type, "pricing")
                 \/ TypeIncludes(type, "demo") \/ TypeIncludes(type, "content_download")
            THEN "high"
            ELSE IF content.length < 30 \/ TypeIncludes(type, "like") \/ duration < 30
                 THEN "low"
            ELSE "medium"
        buyingStage ==
            IF TypeIncludes(type, "pricing") \/ TypeIncludes(type, "demo")
                 \/ TypeIncludes(type, "trial") THEN "decision"
            ELSE IF TypeIncludes(type, "content_download")
                      \/ page \cap {"case-study", "features"} # {} THEN "consideration"
            ELSE IF "blog" \in page \/ TypeIncludes(type, "like") THEN "awareness"
            ELSE "unknown"
        sentiment ==
            IF content.keywords \cap {"love", "great", "excellent", "helpful", "good",
                                      "interested", "excited"} # {} THEN "positive"
            ELSE IF content.keywords \cap {"struggling", "frustrated", "difficult",
                                           "problem", "issue", "waste"} # {}
                 THEN "negative"
            ELSE "neutral"
        indicators == {"competitor", "student", "@gmail.com", "@yahoo.com"}
        falsePositiveRisk ==
            IF content.keywords \cap indicators # {}
                 \/ Keywords(p, "email") \cap indicators # {} THEN "high"
            ELSE IF duration < 10
                      \/ (Has(signal, "bounceRate") /\ signal.bounceRate > 90)
                      \/ (action = "like" /\ ~HasContent(signal)) THEN "high"
            ELSE IF TypeIncludes(type, "pricing") \/ TypeIncludes(type, "demo")
                      \/ content.length > 50 THEN "low"
            ELSE "medium"
    IN  [ painPoints |-> painPoints,
          urgency |-> urgency,
          specificity |-> specificity,
          buyingStage |-> buyingStage,
          sentiment |-> sentiment,
          falsePositiveRisk |-> falsePositiveRisk,
          confidence |-> IF urgency = "high" /\ specificity = "high" THEN 85
                         ELSE IF urgency = "medium" THEN 70
                         ELSE 60 ]

extractWithMock(signal, p) ==
    LET type == signal.type
        content == IF HasContent(signal) THEN signal.content
                   ELSE [length |-> 0, keywords |-> {}]
        action == IF Has(signal, "action") THEN signal.action ELSE ""
        page == Keywords(signal, "page")
        duration == IF Truthy(signal, "duration") THEN signal.duration ELSE 0
        visitNumber == IF Truthy(signal, "visitNumber") THEN signal.visitNumber ELSE 1
        found == SelectSeq(painKeywords, LAMBDA k : k \in content.keywords)
        painPoints ==
            IF Len(found) > 0 THEN found
            ELSE IF content.length > 50
                 THEN <<"Potential interest indicated by engagement">>
                 ELSE <<"Engagement indicates interest">>
        urgency ==
            IF content.keywords \cap {"urgent", "asap", "immediately", "quickly",
                                      "deadline", "yesterday", "now"} # {} THEN "high"
            ELSE IF TypeIncludes(type, "pricing") \/ TypeIncludes(type, "demo")
                      \/ visitNumber >= 3 THEN "high"
            ELSE IF TypeIncludes(type, "job_change") /\ Truthy(signal, "daysInRole")
                      /\ signal.daysInRole < 90 THEN "medium"
            ELSE IF duration < 30 \/ TypeIncludes(type, "like") \/ action = "like"
                 THEN "low"
            ELSE "medium"
        specificity ==
            IF content.length > 100 \/ TypeIncludes(type, "pricing")
                 \/ TypeIncludes(type, "demo") \/ TypeIncludes(type, "content_download")
            THEN "high"
            ELSE IF content.length < 30 \/ TypeIncludes(type, "like") \/ duration < 30
                 THEN "low"
            ELSE "medium"
        buyingStage ==
            IF TypeIncludes(type, "pricing") \/ TypeIncludes(type, "demo")
                 \/ TypeIncludes(type, "trial") THEN "decision"
            ELSE IF TypeIncludes(type, "content_download")
                      \/ page \cap {"case-study", "features"} # {} THEN "consideration"
            ELSE IF "blog" \in page \/ TypeIncludes(type, "like") THEN "awareness"
            ELSE "unknown"
        sentiment ==
            IF content.keywords \cap {"love", "great", "excellent", "helpful", "good",
                                      "interested", "excited"} # {} THEN "positive"
            ELSE IF content.keywords \cap {"struggling", "frustrated", "difficult",
                                           "problem", "issue", "waste"} # {}
                 THEN "negative"
            ELSE "neutral"
        indicators == {"competitor", "student", "@gmail.com", "@yahoo.com"}
        falsePositiveRisk ==
            IF content.keywords \cap indicators # {}
                 \/ Keywords(p, "email") \cap indicators # {} THEN "high"
            ELSE IF duration < 10
                      \/ (Has(signal, "bounceRate") /\ signal.bounceRate > 90)
                      \/ (action = "like" /\ ~HasContent(signal)) THEN "high"
            ELSE IF TypeIncludes(type, "pricing") \/ TypeIncludes(type, "demo")
                      \/ content.length > 50 THEN "low"
            ELSE "medium"
    IN  [ painPoints |-> painPoints,
          urgency |-> urgency,
          specificity |-> specificity,
          buyingStage |-> buyingStage,
          sentiment |-> sentiment,
          falsePositiveRisk |-> falsePositiveRisk,
          confidence |-> IF urgency = "high" /\ specificity = "high" THEN 85
                         ELSE IF urgency = "medium" THEN 70
                         ELSE 60 ]

\* what JSON.parse of a reply of the model can be: nothing checks its shape
ReplyUniverse ==
    { [ painPoints |-> <<"manual data entry">>, urgency |-> "high",
        specificity |-> "high", buyingStage |-> "decision", sentiment |-> "negative",
        falsePositiveRisk |-> "low", confidence |-> 85 ],
      [ urgency |-> "low", confidence |-> 150 ] }

\* how extractWithClaude can end: it returns the parsed reply, or throws (no
\* client, the transport, a reply that is not JSON)
ClaudeOutcomes ==
    {[returned |-> r] : r \in ReplyUniverse}
      \cup {[threw |-> "Failed to extract context from signal"]}

\* how the extraction of one signal can end under the provider
ExtractionOutcomes(provider, analyzed, p) ==
    IF provider = "anthropic" THEN ClaudeOutcomes
    ELSE {[returned |-> extractWithMock(analyzed.rawData, p)]}

MutFailureClearsContext(analyzed, outcome) ==
    IF Has(outcome, "threw") THEN [analyzed EXCEPT !.qualitativeContext = [f \in {} |-> f]]
    ELSE [analyzed EXCEPT
            !.qualitativeContext = outcome.returned @@ analyzed.qualitativeContext]

MutReplySpreadOverSignal(analyzed, outcome) ==
    IF Has(outcome, "threw") THEN analyzed
    ELSE outcome.returned @@ analyzed

\* one turn of the loop of enrichSignalsWithContext: what it pushes
EnrichedOrAsIs(analyzed, outcome) ==
    IF Has(outcome, "threw") THEN analyzed
    ELSE [analyzed EXCEPT
            !.qualitativeContext = outcome.returned @@ analyzed.qualitativeContext]

(***************************************************************************)
(* patternMatcher.ts                                                       *)
(* A criterion holds the fields its JSON carries; confidence is kept in    *)
(* hundredths, bounceRate_min in hundredths, avgDaysToClose: null as the   *)
(* field left out.                                                         *)
(***************************************************************************)

getDefaultPatterns ==
    << [ id |-> "engaged_evaluator", name |-> "Engaged Evaluator",
         requiredSignals |->
           << [type |-> "linkedin_engagement", action |-> "commented", minScore |-> 70],
              [type |-> "website_visit", page_includes |-> "pricing", minVisits |-> 2] >>,
         optionalSignals |->
           << [type |-> "content_download", category |-> "case_study"] >>,
         historicalConversion |-> 73, avgDaysToClose |-> 14, confidence |-> 85,
         weight |-> 100 ],
       [ id |-> "new_role_evaluator", name |-> "New Role Evaluator",
         requiredSignals |->
           << [type |-> "job_change", daysInRole_min |-> 15, daysInRole_max |-> 90] >>,
         optionalSignals |->
           << [type |-> "company_news", newsType |-> "funding"],
              [type |-> "hiring_signals", department |-> "sales"],
              [type |-> "website_visit", page_includes |-> "pricing"] >>,
         historicalConversion |-> 58, avgDaysToClose |-> 45, confidence |-> 75,
         weight |-> 85 ],
       [ id |-> "active_evaluator_with_budget", name |-> "Active Evaluator with Budget",
         requiredSignals |->
           << [type |-> "linkedin_engagement", painPoint |-> TRUE],
              [type |-> "website_visit", page_includes |-> "pricing"] >>,
         optionalSignals |->
           << [type |-> "content_download", bofu |-> TRUE],
              [type |-> "company_news", newsType |-> "funding"] >>,
         historicalConversion |-> 81, avgDaysToClose |-> 12, confidence |-> 90,
         weight |-> 120 ],
       [ id |-> "competitor_researcher", name |-> "Competitor Researcher (False Positive)",
         requiredSignals |->
           << [type |-> "website_visit", duration_max |-> 60, bounceRate_min |-> 80] >>,
         optionalSignals |->
           << [type |-> "linkedin_engagement", action |-> "liked", noComment |-> TRUE],
              [type |-> "email_interaction", action |-> "opened", clickedLink |-> FALSE] >>,
         historicalConversion |-> 4, confidence |-> 78, weight |-> -50,
         isFalsePositive |-> TRUE ],
       [ id |-> "ready_to_buy", name |-> "Ready to Buy",
         requiredSignals |->
           << [type |-> "website_visit", page_includes |-> "pricing", minVisits |-> 3],
              [type |-> "content_download", bofu |-> TRUE] >>,
         optionalSignals |->
           << [type |-> "email_interaction", action |-> "reply"],
              [type |-> "website_visit", page_includes |-> "demo"] >>,
         historicalConversion |-> 87, avgDaysToClose |-> 7, confidence |-> 92,
         weight |-> 150 ] >>

\* readFileSync + JSON.parse of the patterns file; any failure: the defaults
loadKnownPatterns(file) ==
    IF file.exists /\ file.valid THEN file.data ELSE getDefaultPatterns

signalMatchesCriteria(signal, criteria) ==
    LET rawData == signal.rawData
        context == IF Has(signal, "qualitativeContext") THEN signal.qualitativeContext
                   ELSE [f \in {} |-> f]
    IN  /\ signal.type = criteria.type
        /\ ~(Has(criteria, "action")
               /\ ~(Has(rawData, "action") /\ rawData.action = criteria.action))
        /\ ~(Has(criteria, "page_includes")
               /\ ~(Has(rawData, "page") /\ criteria.page_includes \in rawData.page))
        /\ ~(Truthy(criteria, "minScore") /\ signal.quantitativeScore < criteria.minScore)
        /\ ~(Truthy(criteria, "duration_max") /\ Has(rawData, "duration")
               /\ rawData.duration > criteria.duration_max)
        /\ ~(Truthy(criteria, "bounceRate_min")
               /\ ~(Has(rawData, "bounceRate")
                      /\ rawData.bounceRate >= criteria.bounceRate_min))
        /\ ~(Truthy(criteria, "daysInRole_min")
               /\ ~(Has(rawData, "daysInRole")
                      /\ rawData.daysInRole >= criteria.daysInRole_min))
        /\ ~(Truthy(criteria, "daysInRole_max") /\ Has(rawData, "daysInRole")
               /\ rawData.daysInRole > criteria.daysInRole_max)
        /\ ~(Has(criteria, "painPoint") /\ criteria.painPoint
               /\ ~(Has(context, "painPoints") /\ Len(context.painPoints) > 0))
        /\ ~(Has(criteria, "newsType")
               /\ ~(Has(rawData, "newsType") /\ rawData.newsType = criteria.newsType))
        /\ ~(Has(criteria, "department")
               /\ ~(Has(Meta(rawData), "department")
                      /\ Meta(rawData).department.kind = "string"
                      /\ Meta(rawData).department.text = criteria.department))
        /\ ~(Has(criteria, "bofu") /\ criteria.bofu
               /\ Keywords(rawData, "asset")
                    \cap {"implementation", "enterprise", "security", "compliance"} = {})
        /\ ~(Has(criteria, "noComment") /\ criteria.noComment /\ HasContent(rawData))
        /\ ~(Has(criteria, "clickedLink") /\ ~criteria.clickedLink
               /\ Has(rawData, "clickedLink") /\ rawData.clickedLink)

RECURSIVE MatchingSignals(_, _)
\* enrichedSignals.filter(s => signalMatchesCriteria(s, criteria))
MatchingSignals(es, criteria) ==
    IF es = <<>> THEN <<>>
    ELSE IF signalMatchesCriteria(Head(es), criteria)
         THEN <<Head(es)>> \o MatchingSignals(Tail(es), criteria)
         ELSE MatchingSignals(Tail(es), criteria)

countMatchingSignals(es, criteria) == Len(MatchingSignals(es, criteria))

MutRequiredIgnoresMinVisits(es, criteria) == Len(MatchingSignals(es, criteria)) > 0

\* the test one required criterion passes in the first loop of calculatePatternMatch
RequiredCriterionMatched(es, criteria) ==
    IF Truthy(criteria, "minVisits")
    THEN countMatchingSignals(es, criteria) >= criteria.minVisits
    ELSE Len(MatchingSignals(es, criteria)) > 0

MutBonusPerSignal(es, criteria) == 10 * Len(MatchingSignals(es, criteria))

\* what one optional criterion adds to matchScore in the second loop
OptionalBonus(es, criteria) ==
    IF Len(MatchingSignals(es, criteria)) > 0 THEN 10 ELSE 0

RECURSIVE RequiredLoop(_, _)
\* the first loop: [requiredMatched, matchedSignals]
RequiredLoop(es, criteriaList) ==
    IF criteriaList = <<>> THEN [requiredMatched |-> 0, matchedSignals |-> <<>>]
    ELSE LET rest == RequiredLoop(es, SubSeq(criteriaList, 1, Len(criteriaList) - 1))
             criteria == criteriaList[Len(criteriaList)]
         IN  IF RequiredCriterionMatched(es, criteria)
             THEN [ requiredMatched |-> rest.requiredMatched + 1,
                    matchedSignals |-> rest.matchedSignals \o MatchingSignals(es, criteria) ]
             ELSE rest

RECURSIVE OptionalLoop(_, _)
\* the second loop: [bonus, matchedSignals]
OptionalLoop(es, criteriaList) ==
    IF criteriaList = <<>> THEN [bonus |-> 0, matchedSignals |-> <<>>]
    ELSE LET rest == OptionalLoop(es, SubSeq(criteriaList, 1, Len(criteriaList) - 1))
             criteria == criteriaList[Len(criteriaList)]
         IN  [ bonus |-> rest.bonus + OptionalBonus(es, criteria),
               matchedSignals |-> rest.matchedSignals \o MatchingSignals(es, criteria) ]

\* avgDaysToClose: pattern.avgDaysToClose, left out when null
WithAvgDaysToClose(match, pattern) ==
    IF Has(pattern, "avgDaysToClose")
    THEN match @@ [avgDaysToClose |-> pattern.avgDaysToClose]
    ELSE match

\* the MatchedPattern, or None for null
calculatePatternMatch(pattern, es) ==
    LET required == RequiredLoop(es, pattern.requiredSignals)
        optional == IF Has(pattern, "optionalSignals")
                    THEN OptionalLoop(es, pattern.optionalSignals)
                    ELSE [bonus |-> 0, matchedSignals |-> <<>>]
        matchedSignals == required.matchedSignals \o optional.matchedSignals
    IN  IF required.requiredMatched < Len(pattern.requiredSignals) THEN None
        ELSE WithAvgDaysToClose(
               [ pattern |-> pattern.id,
                 name |-> pattern.name,
                 signals |-> [i \in 1..Len(matchedSignals) |->
                                [ type |-> matchedSignals[i].type,
                                  score |-> matchedSignals[i].quantitativeScore ]],
                 historicalConversion |-> pattern.historicalConversion,
                 \* Math.round(pattern.confidence * Math.min(1, length / 4) * 100) / 100
                 confidence |-> Round(pattern.confidence * Min(4, Len(matchedSignals)), 4),
                 matchScore |-> 50 + optional.bonus,
                 weight |-> pattern.weight,
                 isFalsePositive |-> Has(pattern, "isFalsePositive")
                                       /\ pattern.isFalsePositive ],
               pattern)

RECURSIVE MatchAll(_, _)
\* the loop of identifyPatterns over knownPatterns
MatchAll(library, es) ==
    IF library = <<>> THEN <<>>
    ELSE LET rest == MatchAll(SubSeq(library, 1, Len(library) - 1), es)
             match == calculatePatternMatch(library[Len(library)], es)
         IN  IF match = None THEN rest ELSE Append(rest, match)

RECURSIVE InsertByConversion(_, _)
InsertByConversion(x, sorted) ==
    IF sorted = <<>> THEN <<x>>
    ELSE IF Head(sorted).confidence * Head(sorted).historicalConversion
               >= x.confidence * x.historicalConversion
         THEN <<Head(sorted)>> \o InsertByConversion(x, Tail(sorted))
         ELSE <<x>> \o sorted

RECURSIVE SortByConversionDesc(_)
\* matchedPatterns.sort((a, b) => scoreB - scoreA), a stable sort
SortByConversionDesc(s) ==
    IF s = <<>> THEN <<>>
    ELSE InsertByConversion(s[Len(s)], SortByConversionDesc(SubSeq(s, 1, Len(s) - 1)))

MutCacheFallsBackToDefaults(cache, file) ==
    IF Len(cache) = 0 THEN loadKnownPatterns(file) ELSE getDefaultPatterns

MutCacheAccumulates(cache, file) ==
    IF Len(cache) = 0 THEN loadKnownPatterns(file) ELSE cache \o loadKnownPatterns(file)

\* the library identifyPatterns works with: loaded when the cache is empty
LibraryInUse(cache, file) ==
    IF Len(cache) = 0 THEN loadKnownPatterns(file) ELSE cache

\* how many reads of the patterns file identifyPatterns causes: one when the
\* cache is empty
LoadsBy(cache) == IF Len(cache) = 0 THEN 1 ELSE 0

identifyPatterns(es, cache, file) ==
    SortByConversionDesc(MatchAll(LibraryInUse(cache, file), es))

(***************************************************************************)
(* qualityScorer: configuration                                            *)
(***************************************************************************)

\* getDefaultWeights().  baseWeight in hundredths; multipliers as <<n, d>>;
\* scoringWeights in tenths.
getDefaultWeights ==
    [ signalTypeWeights |->
        [ linkedin_engagement |-> 25, website_visit |-> 22,
          content_download |-> 18, email_interaction |-> 15,
          job_change |-> 10, company_news |-> 8, hiring_signals |-> 7,
          tech_stack_change |-> 12, intent_data |-> 10 ],
      contextMultipliers |->
        [ urgency |-> [high |-> <<13, 10>>, medium |-> <<1, 1>>, low |-> <<7, 10>>],
          specificity |-> [high |-> <<5, 4>>, medium |-> <<1, 1>>, low |-> <<4, 5>>],
          buyingStage |-> [decision |-> <<7, 5>>, consideration |-> <<23, 20>>,
                           awareness |-> <<9, 10>>, unknown |-> <<17, 20>>],
          falsePositiveRisk |-> [low |-> <<6, 5>>, medium |-> <<1, 1>>, high |-> <<3, 5>>] ],
      temporalMultipliers |->
        [ velocity |-> [increasing |-> <<6, 5>>, stable |-> <<1, 1>>, decreasing |-> <<4, 5>>] ],
      scoringWeights |->
        [ individualSignals |-> 4, patternMatching |-> 4, prospectFit |-> 2 ] ]

\* loadWeights(): the weights file is not part of the sources; the built-in
\* defaults are what the catch branch installs.
loadWeights == getDefaultWeights

\* weights.contextMultipliers[table][ctx[field]] when the field is set, else 1.0
ContextMultiplier(table, ctx, field) ==
    IF Has(ctx, field) THEN table[ctx[field]] ELSE <<1, 1>>

(***************************************************************************)
(* qualityScorer: calculateSignalWeight, calculateSignalScores             *)
(***************************************************************************)

\* contextualScore as the exact fraction <<n, d>>
contextualScore(signal, weights) ==
    LET ctx == signal.qualitativeContext
        tf  == signal.temporalFactors
        u == ContextMultiplier(weights.contextMultipliers.urgency, ctx, "urgency")
        s == ContextMultiplier(weights.contextMultipliers.specificity, ctx, "specificity")
        b == ContextMultiplier(weights.contextMultipliers.buyingStage, ctx, "buyingStage")
        f == ContextMultiplier(weights.contextMultipliers.falsePositiveRisk, ctx,
                               "falsePositiveRisk")
        \* 1 + (recency - 0.5) * 0.4 with recency in hundredths
        r == <<200 + tf.recency, 250>>
        v == ContextMultiplier(weights.temporalMultipliers.velocity, tf, "velocity")
    IN  << signal.quantitativeScore * u[1] * s[1] * b[1] * f[1] * r[1] * v[1],
           u[2] * s[2] * b[2] * f[2] * r[2] * v[2] >>

calculateSignalWeight(signal, weights) ==
    LET cs == contextualScore(signal, weights)
    IN  [ signal |-> signal.type,
          baseScore |-> signal.quantitativeScore,
          finalScore |-> Round(cs[1], cs[2]),
          \* baseWeight || 0.1, then Math.round(baseWeight * 100)
          weight |-> IF signal.type \in DOMAIN weights.signalTypeWeights
                     THEN weights.signalTypeWeights[signal.type] ELSE 10 ]

calculateSignalScores(signalsIn, weights) ==
    LET signalScores == [i \in 1..Len(signalsIn) |->
                            calculateSignalWeight(signalsIn[i], weights)]
        totalWeight  == SumSeq([i \in 1..Len(signalScores) |-> signalScores[i].weight])
        weightedSum  == SumSeq([i \in 1..Len(signalScores) |->
                                  signalScores[i].finalScore * signalScores[i].weight])
    IN  [ scores |-> signalScores,
          averageScore |-> IF totalWeight > 0 THEN Round(weightedSum, totalWeight) ELSE 0 ]

(***************************************************************************)
(* qualityScorer: calculatePatternScore                                    *)
(***************************************************************************)

\* pattern.confidence || 0.5, in hundredths
PatternConfidenceOrDefault(p) ==
    IF Has(p, "confidence") /\ p.confidence # 0 THEN p.confidence ELSE 50

\* pattern.weight || 100
PatternWeightOrDefault(p) ==
    IF Has(p, "weight") /\ p.weight # 0 THEN p.weight ELSE 100

MutPatternScoreNormalised(ps) ==
    IF Len(ps) = 0 THEN 50
    ELSE LET cw == SumSeq([i \in 1..Len(ps) |->
                 PatternConfidenceOrDefault(ps[i]) * PatternWeightOrDefault(ps[i])])
             hcw == SumSeq([i \in 1..Len(ps) |->
                 ps[i].historicalConversion * PatternConfidenceOrDefault(ps[i])
                     * PatternWeightOrDefault(ps[i])])
         IN  IF cw = 0 THEN 0
             ELSE IF cw < 0 THEN Round(-hcw, -cw) ELSE Round(hcw, cw)

calculatePatternScore(ps) ==
    IF Len(ps) = 0 THEN 50
    ELSE LET weightedScores == [i \in 1..Len(ps) |->
                 ps[i].historicalConversion * PatternConfidenceOrDefault(ps[i])
                     * PatternWeightOrDefault(ps[i])]
             totalWeight == SumSeq([i \in 1..Len(ps) |-> PatternConfidenceOrDefault(ps[i])])
         IN  \* sum(score * conf * weight/100) / sum(conf)
             Round(SumSeq(weightedScores), 100 * totalWeight)

(***************************************************************************)
(* qualityScorer: calculateProspectFit                                     *)
(***************************************************************************)

\* The prospect's strings are kept as what the code tests of them:
\*   industry: "saas" (includes saas/software), "tech" (includes tech), "other"
\*   role:     "decision_maker" (includes vp/director/...), "manager", "other"
calculateProspectFit(p, weights) ==
    LET size == \* prospectFitMultipliers is absent from the defaults: 1.0
                <<1, 1>>
        industry == IF ~Has(p, "industry") THEN <<1, 1>>
                    ELSE IF p.industry = "saas" THEN <<23, 20>>
                    ELSE IF p.industry = "tech" THEN <<11, 10>>
                    ELSE <<1, 1>>
        role == IF ~Has(p, "role") THEN <<1, 1>>
                ELSE IF p.role = "decision_maker" THEN <<6, 5>>
                ELSE IF p.role = "manager" THEN <<21, 20>>
                ELSE <<1, 1>>
    IN  Min(100, Round(50 * size[1] * industry[1] * role[1],
                       size[2] * industry[2] * role[2]))

(***************************************************************************)
(* qualityScorer: calculateConfidence, determinePriority                   *)
(***************************************************************************)

MutConfidenceNoLowTail(signalCount, patternCount) ==
    IF signalCount >= 6 \/ (signalCount >= 5 /\ patternCount >= 1)
          \/ (signalCount >= 3 /\ patternCount >= 1 /\ signalCount >= 4)
    THEN "high"
    ELSE IF signalCount < 3 /\ patternCount = 0 THEN "low"
    ELSE "medium"

\* dataCompleteness = Math.min(1, signalCount / 5) is passed by the only caller;
\* dataCompleteness >= 0.8 is 10 * min(5, signalCount) >= 8 * 5.
calculateConfidence(signalCount, patternCount) ==
    LET dataCompleteness10 == 2 * Min(5, signalCount)   \* in tenths
    IN  IF signalCount >= 6 \/ (signalCount >= 5 /\ patternCount >= 1)
           \/ (signalCount >= 3 /\ patternCount >= 1 /\ dataCompleteness10 >= 8)
        THEN "high"
        ELSE IF signalCount < 3 /\ patternCount = 0 THEN "low"
        ELSE IF signalCount >= 2 /\ patternCount >= 1 THEN "medium"
        ELSE IF signalCount < 3 THEN "low"
        ELSE "medium"

MutPriorityIgnoresFalsePositive(qualityScore, falsePositiveDetected) ==
    IF qualityScore >= 85 THEN "urgent"
    ELSE IF qualityScore >= 70 THEN "high"
    ELSE IF qualityScore >= 50 THEN "medium"
    ELSE IF qualityScore >= 30 THEN "low"
    ELSE "ignore"

MutPriorityShiftedBand(qualityScore, falsePositiveDetected) ==
    IF falsePositiveDetected THEN "ignore"
    ELSE IF qualityScore > 85 THEN "urgent"
    ELSE IF qualityScore >= 70 THEN "high"
    ELSE IF qualityScore >= 50 THEN "medium"
    ELSE IF qualityScore >= 30 THEN "low"
    ELSE "ignore"

determinePriority(qualityScore, falsePositiveDetected) ==
    IF falsePositiveDetected THEN "ignore"
    ELSE IF qualityScore >= 85 THEN "urgent"
    ELSE IF qualityScore >= 70 THEN "high"
    ELSE IF qualityScore >= 50 THEN "medium"
    ELSE IF qualityScore >= 30 THEN "low"
    ELSE "ignore"

(***************************************************************************)
(* qualityScorer: generateReasoning sorts the score list in place          *)
(***************************************************************************)

\* Array.prototype.sort((a, b) => b.finalScore - a.finalScore): stable, descending
RECURSIVE InsertByFinalScore(_, _)
InsertByFinalScore(x, sorted) ==
    IF sorted = <<>> THEN <<x>>
    ELSE IF Head(sorted).finalScore >= x.finalScore
         THEN <<Head(sorted)>> \o InsertByFinalScore(x, Tail(sorted))
         ELSE <<x>> \o sorted

RECURSIVE SortByFinalScoreDesc(_)
SortByFinalScoreDesc(s) ==
    IF s = <<>> THEN <<>>
    ELSE InsertByFinalScore(s[Len(s)], SortByFinalScoreDesc(SubSeq(s, 1, Len(s) - 1)))

(***************************************************************************)
(* qualityScorer: calculateQualityScore                                    *)
(***************************************************************************)

MutNoClamp(q) == q

\* Math.max(0, Math.min(100, qualityScore))
ClampScore(q) == Max(0, Min(100, q))

calculateQualityScore(es, ps, p) ==
    LET weights == loadWeights
        ss == calculateSignalScores(es, weights)
        averageScore == ss.averageScore
        patternScore == calculatePatternScore(ps)
        fitScore == calculateProspectFit(p, weights)
        sw == weights.scoringWeights
        qualityScore == Round(averageScore * sw.individualSignals
                              + patternScore * sw.patternMatching
                              + fitScore * sw.prospectFit, 10)
        confidence == calculateConfidence(Len(es), Len(ps))
        isFalsePositive == \E i \in 1..Len(ps) :
                               Has(ps[i], "isFalsePositive") /\ ps[i].isFalsePositive
        priorityLevel == determinePriority(qualityScore, isFalsePositive)
        \* generateReasoning has sorted signalScores before the breakdown is built
        sortedScores == SortByFinalScoreDesc(ss.scores)
        breakdown == [i \in 1..Len(sortedScores) |->
                        [ signal |-> es[i].type,
                          weight |-> sortedScores[i].weight,
                          score |-> sortedScores[i].finalScore,
                          baseScore |-> sortedScores[i].baseScore ]]
    IN  [ qualityScore |-> ClampScore(qualityScore),
          confidence |-> confidence,
          priorityLevel |-> priorityLevel,
          breakdown |-> breakdown,
          patterns |-> ps,
          components |-> [ signalScore |-> averageScore,
                           patternScore |-> patternScore,
                           fitScore |-> fitScore ] ]

(***************************************************************************)
(* actionEngine                                                            *)
(* Explanatory texts (reasoning, analysis, estimatedDealValue, the         *)
(* constant analysisVersion and llmModel) are left out.  A probability is  *)
(* in hundredths.  A red flag is the record of its kind and, for a         *)
(* false-positive pattern, of the name it quotes.  A suggested message is  *)
(* the record of the template chosen and of the type of its trigger signal.*)
(***************************************************************************)

\* enrichedSignals.some(s => s.type === type)
HasType(es, type) == \E k \in 1..Len(es) : es[k].type = type

\* s.qualitativeContext.urgency === 'high'
HighUrgency(sg) ==
    Has(sg.qualitativeContext, "urgency") /\ sg.qualitativeContext.urgency = "high"

determineChannel(es, p) ==
    IF HasType(es, "linkedin_engagement") THEN "linkedin_message"
    ELSE IF HasType(es, "email_interaction") THEN "email"
    ELSE "linkedin_message"

\* the keywords of determineMessagingAngle that a pain point of this model contains
PainPointKeywords(painPoint) ==
    IF painPoint = "manual data entry" THEN {"manual"}
    ELSE IF painPoint = "scaling the team" THEN {"scaling"}
    ELSE {}

\* qualitativeContext.painPoints || []
PainPointsOf(sg) ==
    IF Has(sg.qualitativeContext, "painPoints") THEN sg.qualitativeContext.painPoints
    ELSE <<>>

RECURSIVE FlatPainPoints(_)
FlatPainPoints(es) ==
    IF es = <<>> THEN <<>> ELSE PainPointsOf(Head(es)) \o FlatPainPoints(Tail(es))

determineMessagingAngle(es, ps) ==
    LET allPainPoints == FlatPainPoints(es)
        text == UNION {PainPointKeywords(allPainPoints[i]) : i \in 1..Len(allPainPoints)}
        byPain ==
            IF Len(allPainPoints) = 0 THEN [angle |-> "general_value_prop"]
            ELSE IF text \cap {"scaling", "growth", "team expansion", "hiring"} # {}
                 THEN [angle |-> "scaling_productivity",
                       painPointFocus |-> "team scaling challenges"]
            ELSE IF text \cap {"manual", "time", "efficiency", "productivity", "admin"} # {}
                 THEN [angle |-> "time_savings",
                       painPointFocus |-> "manual process automation"]
            ELSE IF text \cap {"integration", "salesforce", "crm", "tech stack"} # {}
                 THEN [angle |-> "integration_solution",
                       painPointFocus |-> "integration and tech stack optimization"]
            ELSE [angle |-> "general_value_prop"]
        primary == IF Len(ps) > 0 /\ Has(ps[1], "pattern") THEN ps[1].pattern ELSE ""
    IN  IF primary = "new_role_evaluator"
        THEN [byPain EXCEPT !.angle = "new_role_stack_evaluation"]
        ELSE IF primary = "active_evaluator_with_budget"
             THEN [byPain EXCEPT !.angle = "quick_roi"]
             ELSE byPain

MutTimingSameSignal(qualityScore, es) ==
    IF qualityScore >= 85
         \/ (\E k \in 1..Len(es) : es[k].temporalFactors.recency > 90
                                        /\ HighUrgency(es[k]))
    THEN "within_24h"
    ELSE IF qualityScore >= 70 THEN "within_48h"
    ELSE IF qualityScore >= 50 THEN "within_week"
    ELSE "no_rush"

MutTimingWeekFromSixty(qualityScore, es) ==
    LET hasVeryRecentSignal == \E k \in 1..Len(es) : es[k].temporalFactors.recency > 90
        hasHighUrgency == \E k \in 1..Len(es) : HighUrgency(es[k])
    IN  IF qualityScore >= 85 \/ (hasVeryRecentSignal /\ hasHighUrgency) THEN "within_24h"
        ELSE IF qualityScore >= 70 THEN "within_48h"
        ELSE IF qualityScore >= 60 THEN "within_week"
        ELSE "no_rush"

determineTiming(qualityScore, es) ==
    LET hasVeryRecentSignal == \E k \in 1..Len(es) : es[k].temporalFactors.recency > 90
        hasHighUrgency == \E k \in 1..Len(es) : HighUrgency(es[k])
    IN  IF qualityScore >= 85 \/ (hasVeryRecentSignal /\ hasHighUrgency) THEN "within_24h"
        ELSE IF qualityScore >= 70 THEN "within_48h"
        ELSE IF qualityScore >= 50 THEN "within_week"
        ELSE "no_rush"

generateDoNotMention(es) ==
    (IF HasType(es, "website_visit")
     THEN <<"website visits">> ELSE <<>>)
    \o (IF HasType(es, "job_change")
        THEN <<"job change">> ELSE <<>>)
    \o (IF HasType(es, "email_interaction")
        THEN <<"email tracking">> ELSE <<>>)
    \o <<"Generic pitch or feature dump", "Your quota or sales targets">>

\* daysToClose: null is the field left out
findSimilarHistoricalWins(ps, p) ==
    IF Len(ps) > 0
    THEN << [ signalPattern |-> ps[1].name,
              dealValue |-> IF Has(p, "companySize") /\ p.companySize = "50-200"
                            THEN "$150k ACV" ELSE "$200k ACV" ]
            @@ (IF Has(ps[1], "avgDaysToClose")
                THEN [daysToClose |-> ps[1].avgDaysToClose] ELSE [f \in {} |-> f]) >>
    ELSE <<>>

\* The product baseConversion * confidenceMultiplier * 100 is an IEEE double.
\* Where the exact product ends in .5, the double is that number or lies just
\* below it, and Math.round goes up or down accordingly.  These are the
\* <<qualityScore, historicalConversion, multiplier>> (0..100, 0..100,
\* hundredths) whose double lies below.
DoubleBelowTie ==
    { <<0, 75, 70>>, <<1, 41, 70>>, <<2, 7, 70>>, <<2, 57, 70>>,
      <<2, 82, 85>>, <<5, 5, 70>>, <<8, 3, 70>>, <<8, 53, 70>>,
      <<9, 69, 70>>, <<11, 1, 70>>, <<11, 51, 70>>, <<11, 76, 85>>,
      <<13, 83, 70>>, <<14, 49, 70>>, <<14, 99, 70>>, <<17, 47, 70>>,
      <<17, 97, 70>>, <<20, 95, 70>>, <<22, 77, 70>>, <<23, 93, 70>>,
      <<24, 59, 70>>, <<25, 75, 70>>, <<26, 41, 70>>, <<26, 91, 70>>,
      <<27, 57, 70>>, <<29, 39, 70>>, <<29, 89, 70>>, <<32, 37, 70>>,
      <<32, 87, 70>>, <<35, 35, 70>>, <<35, 85, 70>>, <<36, 51, 70>>,
      <<38, 83, 70>>, <<39, 99, 70>>, <<41, 31, 70>>, <<41, 81, 70>>,
      <<42, 47, 70>>, <<42, 97, 70>>, <<44, 29, 70>>, <<44, 79, 70>>,
      <<45, 95, 70>>, <<47, 27, 70>>, <<47, 77, 70>>, <<48, 93, 70>>,
      <<50, 25, 70>>, <<50, 75, 70>>, <<51, 41, 70>>, <<51, 91, 70>>,
      <<53, 73, 70>>, <<54, 89, 70>>, <<56, 71, 70>>, <<57, 37, 70>>,
      <<57, 87, 70>>, <<58, 3, 70>>, <<59, 19, 70>>, <<59, 69, 70>>,
      <<60, 35, 70>>, <<60, 85, 70>>, <<62, 17, 70>>, <<62, 67, 70>>,
      <<63, 83, 70>>, <<65, 15, 70>>, <<65, 65, 70>>, <<66, 81, 70>>,
      <<68, 63, 70>>, <<69, 29, 70>>, <<69, 79, 70>>, <<70, 95, 70>>,
      <<71, 11, 70>>, <<71, 61, 70>>, <<72, 27, 70>>, <<72, 77, 70>>,
      <<74, 9, 70>>, <<74, 59, 70>>, <<75, 75, 70>>, <<77, 57, 70>>,
      <<78, 73, 70>>, <<81, 71, 70>>, <<83, 53, 70>>, <<84, 69, 70>>,
      <<84, 94, 85>>, <<86, 51, 70>>, <<87, 67, 70>>, <<89, 49, 70>>,
      <<89, 99, 70>>, <<90, 65, 70>>, <<92, 47, 70>>, <<92, 97, 70>>,
      <<93, 63, 70>>, <<95, 45, 70>>, <<95, 95, 70>>, <<96, 61, 70>>,
      <<98, 43, 70>>, <<99, 59, 70>> }

\* the scores whose double lies below the tie when no pattern matched
\* (multiplier 0.7)
DoubleBelowTieNoPattern == {5, 35, 65, 75, 95}

estimateConversion(qualityScore, ps, confidence) ==
    LET m == CASE confidence = "high" -> 100
               [] confidence = "medium" -> 85
               [] confidence = "low" -> 70
               [] OTHER -> 85
    IN  IF Len(ps) > 0
        THEN \* (score/100 * 0.4 + conversion/100 * 0.6) * m * 100
             LET hc == ps[1].historicalConversion
                 exact == Round((4 * qualityScore + 6 * hc) * m, 1000)
             IN  IF <<qualityScore, hc, m>> \in DoubleBelowTie THEN exact - 1 ELSE exact
        ELSE LET exact == Round(qualityScore * m, 100)
             IN  IF m = 70 /\ qualityScore \in DoubleBelowTieNoPattern
                 THEN exact - 1 ELSE exact

\* timing.replace('_', ' ')
TimingText(timing) ==
    CASE timing = "within_24h" -> "within 24h"
      [] timing = "within_48h" -> "within 48h"
      [] timing = "within_week" -> "within week"
      [] OTHER -> "no rush"

generateNextSteps(qualityScore, timing, channel) ==
    IF qualityScore >= 70
    THEN << [ action |-> IF channel = "email" THEN "Send personalized email"
                         ELSE "Send personalized linkedin message",
              timing |-> TimingText(timing), priority |-> 1 ],
            [ action |-> "If no response in 48h, send follow-up with case study",
              timing |-> "48h after first touchpoint", priority |-> 2 ],
            [ action |-> "If response positive, book discovery call",
              timing |-> "immediate upon response", priority |-> 3 ] >>
    ELSE << [ action |-> "Monitor for additional signals",
              timing |-> "continuous", priority |-> 1 ],
            [ action |-> "Add to nurture campaign",
              timing |-> "immediate", priority |-> 2 ],
            [ action |-> "Re-evaluate when 2+ new signals appear",
              timing |-> "as signals arrive", priority |-> 3 ] >>

identifyRedFlags(es, ps) ==
    LET fp == SelectSeq(ps, LAMBDA q : Has(q, "isFalsePositive") /\ q.isFalsePositive)
        highRisk == SelectSeq(es, LAMBDA sg :
                        Has(sg.qualitativeContext, "falsePositiveRisk")
                        /\ sg.qualitativeContext.falsePositiveRisk = "high")
        shallow == SelectSeq(es, LAMBDA sg : sg.quantitativeScore < 40)
        competitor == \E k \in 1..Len(es) :
                          \/ TruthyValue(Meta(es[k].rawData), "isCompetitor")
                          \/ "competitor" \in Keywords(es[k].rawData, "company")
    IN  (IF Len(fp) > 0
         THEN <<[kind |-> "Matches false positive pattern", name |-> fp[1].name]>>
         ELSE <<>>)
        \o (IF 2 * Len(highRisk) > Len(es)
            THEN <<[kind |-> "Majority of signals have high false positive risk"]>>
            ELSE <<>>)
        \o (IF Len(shallow) = Len(es)
            THEN <<[kind |-> "All signals show shallow engagement"]>> ELSE <<>>)
        \o (IF competitor
            THEN <<[kind |-> "Prospect may be competitor conducting research"]>>
            ELSE <<>>)

\* messageGenerator.findTriggerSignal
findTriggerSignal(es) ==
    LET comments == SelectSeq(es, LAMBDA sg : sg.type = "linkedin_engagement"
                                  /\ Has(sg.rawData, "action")
                                  /\ sg.rawData.action = "commented")
        downloads == SelectSeq(es, LAMBDA sg : sg.type = "content_download")
        pricing == SelectSeq(es, LAMBDA sg : sg.type = "website_visit"
                                 /\ "pricing" \in Keywords(sg.rawData, "page"))
    IN  IF Len(comments) > 0 THEN comments[1]
        ELSE IF Len(downloads) > 0 THEN downloads[1]
        ELSE IF Len(pricing) > 0 THEN pricing[1]
        ELSE IF Len(es) > 0 THEN es[1]
        ELSE None    \* enrichedSignals[0] of an empty array: undefined

\* messageGenerator.generatePersonalizedMessage
generatePersonalizedMessage(p, es, angle) ==
    LET focused == Has(angle, "painPointFocus")
        template ==
            IF angle.angle = "scaling_productivity" /\ focused THEN "scaling"
            ELSE IF angle.angle = "time_savings" /\ focused THEN "time_savings"
            ELSE IF angle.angle = "integration_solution" /\ focused THEN "integration"
            ELSE IF angle.angle = "new_role_stack_evaluation" THEN "new_role"
            ELSE IF angle.angle = "quick_roi" THEN "quick_roi"
            ELSE "generic"
        triggerSignal == findTriggerSignal(es)
    IN  IF template \in {"integration", "new_role", "quick_roi"}
        THEN [template |-> template]
        ELSE \* these templates read triggerSignal.type
             IF triggerSignal = None THEN TypeError
             ELSE [template |-> template, trigger |-> triggerSignal.type]

\* metadata: generatedAt is new Date().toISOString()
Metadata(es, clock) ==
    [ generatedAt |-> clock,
      signalSources |-> {es[i].type : i \in 1..Len(es)} ]

MutMinimalOnlyForIgnore(priorityLevel) == priorityLevel = "ignore"

\* if (priorityLevel === 'ignore' || priorityLevel === 'low')
MinimalPath(priorityLevel) == priorityLevel = "ignore" \/ priorityLevel = "low"

generateActionRecommendation(sr, es, p, opts, clock) ==
    IF MinimalPath(sr.priorityLevel)
    THEN [ qualityScore |-> sr.qualityScore,
           confidence |-> sr.confidence,
           priorityLevel |-> sr.priorityLevel,
           signalBreakdown |-> sr.breakdown,
           matchedPatterns |-> sr.patterns,
           type |-> IF sr.priorityLevel = "ignore" THEN "no_action" ELSE "monitor_only",
           recommendedAction |->
             [ type |-> "monitor_and_enrich",
               nextSteps |->
                 << [ action |-> "Add to passive nurture campaign",
                      timing |-> "immediate", priority |-> 1 ],
                    [ action |-> "Monitor for additional signals",
                      timing |-> "continuous", priority |-> 2 ],
                    [ action |-> "Wait for 3+ more qualifying signals before outreach",
                      timing |-> "as signals arrive", priority |-> 3 ] >> ],
           estimatedOutcome |->
             [ conversionProbability |->
                   estimateConversion(sr.qualityScore, sr.patterns, sr.confidence),
               confidence |-> "low" ],
           metadata |-> Metadata(es, clock) ]
    ELSE LET channel == determineChannel(es, p)
             timing == determineTiming(sr.qualityScore, es)
             angle == determineMessagingAngle(es, sr.patterns)
             \* typedPatterns[0].avgDaysToClose, null as the field left out
             daysToClose ==
                 IF Len(sr.patterns) > 0
                 THEN IF Has(sr.patterns[1], "avgDaysToClose")
                      THEN [estimatedDaysToClose |-> sr.patterns[1].avgDaysToClose]
                      ELSE [f \in {} |-> f]
                 ELSE [estimatedDaysToClose |-> Round(60 + (100 - sr.qualityScore), 2)]
             requested == ~(Has(opts, "generateMessage") /\ opts.generateMessage = FALSE)
             message ==
                 IF requested
                 THEN [suggestedMessage |-> generatePersonalizedMessage(p, es, angle)]
                 ELSE [f \in {} |-> f]
         IN  IF requested /\ message.suggestedMessage = TypeError THEN TypeError ELSE
             [ qualityScore |-> sr.qualityScore,
               confidence |-> sr.confidence,
               priorityLevel |-> sr.priorityLevel,
               signalBreakdown |-> sr.breakdown,
               matchedPatterns |-> sr.patterns,
               recommendedAction |->
                 [ type |-> "personalized_outreach",
                   channel |-> channel,
                   timing |-> timing,
                   priority |-> sr.priorityLevel,
                   messagingAngle |-> angle.angle,
                   doNotMention |-> generateDoNotMention(es),
                   nextSteps |-> generateNextSteps(sr.qualityScore, timing, channel),
                   redFlags |-> identifyRedFlags(es, sr.patterns) ] @@ message,
               similarHistoricalWins |-> findSimilarHistoricalWins(sr.patterns, p),
               estimatedOutcome |->
                 [ conversionProbability |->
                       estimateConversion(sr.qualityScore, sr.patterns, sr.confidence),
                   confidence |-> sr.confidence ] @@ daysToClose,
               metadata |-> Metadata(es, clock) ]

(***************************************************************************)
(* calculateQualityScore as a function of arbitrary arguments              *)
(***************************************************************************)

MaxScoreSignals == 6
MaxScorePatterns == 2

FullContext(u, s, b, f) ==
    [ urgency |-> u, specificity |-> s, buyingStage |-> b, falsePositiveRisk |-> f,
      sentiment |-> "neutral", painPoints |-> <<>>, confidence |-> 60 ]

\* Enriched signals handed to calculateQualityScore: the strongest a signal can
\* be, a worthless one, and one whose enrichment failed (urgency only, and a
\* type the weights table does not list).
ScoreSignalUniverse ==
    { [ type |-> "linkedin_engagement", rawData |-> [type |-> "linkedin_engagement"],
        quantitativeScore |-> 100,
        qualitativeContext |-> FullContext("high", "high", "decision", "low"),
        temporalFactors |-> [recency |-> 100, frequency |-> 1, velocity |-> "increasing"] ],
      [ type |-> "website_visit", rawData |-> [type |-> "website_visit"],
        quantitativeScore |-> 0,
        qualitativeContext |-> FullContext("low", "low", "awareness", "high"),
        temporalFactors |-> [recency |-> 30, frequency |-> 1, velocity |-> "stable"] ],
      [ type |-> "webinar_attendance", rawData |-> [type |-> "webinar_attendance"],
        quantitativeScore |-> 60,
        qualitativeContext |-> [urgency |-> "medium"],
        temporalFactors |-> [recency |-> 80, frequency |-> 1] ] }

\* Matched patterns handed to calculateQualityScore: library matches (weight
\* above 100, the false-positive pattern with its negative weight), the bare
\* pattern the unit tests pass, and a pattern of a configured library with a
\* negative weight.
ScorePatternUniverse ==
    { [ pattern |-> "ready_to_buy", name |-> "Ready to Buy", historicalConversion |-> 87,
        avgDaysToClose |-> 7, confidence |-> 92, matchScore |-> 50, weight |-> 150,
        isFalsePositive |-> FALSE ],
      [ pattern |-> "competitor_researcher", name |-> "Competitor Researcher (False Positive)",
        historicalConversion |-> 4, confidence |-> 20, matchScore |-> 50, weight |-> -50,
        isFalsePositive |-> TRUE ],
      [ name |-> "Engaged Evaluator", historicalConversion |-> 73 ],
      [ pattern |-> "churn_risk", name |-> "Churn Risk", historicalConversion |-> 87,
        avgDaysToClose |-> 30, confidence |-> 90, matchScore |-> 50, weight |-> -150,
        isFalsePositive |-> FALSE ] }

ScoreProspectUniverse ==
    { [company |-> "Acme", role |-> "decision_maker", industry |-> "saas",
       companySize |-> "50-200"],
      [company |-> "Acme", role |-> "other"] }

InSeq(x, s) == \E i \in 1..Len(s) : s[i] = x

InitScore ==
    /\ pc = "input"
    /\ signals = <<>>
    /\ prospect \in ScoreProspectUniverse
    /\ analyzedSignals = <<>>
    /\ enrichedSignals = <<>>
    /\ patterns = <<>>
    /\ scoringResult = None
    /\ recommendation = None
    /\ knownPatterns = <<>>
    /\ patternsFile = [exists |-> FALSE]
    /\ quantOutcome = None
    /\ llmProvider = "mock"
    /\ extractions = <<>>
    /\ options = None
    /\ now = Epoch
    /\ firstRun = None
    /\ requests = <<>>
    /\ libraryLoads = 0

\* the caller builds the enrichedSignals argument
AddEnrichedSignal ==
    /\ pc = "input"
    /\ Len(enrichedSignals) < MaxScoreSignals
    /\ \E s \in ScoreSignalUniverse : enrichedSignals' = Append(enrichedSignals, s)
    /\ UNCHANGED <<requests, libraryLoads,
                   pc, signals, prospect, analyzedSignals, patterns, scoringResult,
                   recommendation, knownPatterns, patternsFile, quantOutcome,
                   llmProvider, extractions,
                   options, now, firstRun>>

\* the caller builds the patterns argument (a pattern is matched at most once)
AddPattern ==
    /\ pc = "input"
    /\ Len(patterns) < MaxScorePatterns
    /\ \E p \in ScorePatternUniverse :
          /\ ~InSeq(p, patterns)
          /\ patterns' = Append(patterns, p)
    /\ UNCHANGED <<requests, libraryLoads,
                   pc, signals, prospect, analyzedSignals, enrichedSignals, scoringResult,
                   recommendation, knownPatterns, patternsFile, quantOutcome,
                   llmProvider, extractions,
                   options, now, firstRun>>

ScoreCall ==
    /\ pc = "input"
    /\ scoringResult' = calculateQualityScore(enrichedSignals, patterns, prospect)
    /\ pc' = "scored"
    /\ UNCHANGED <<requests, libraryLoads,
                   signals, prospect, analyzedSignals, enrichedSignals, patterns,
                   recommendation, knownPatterns, patternsFile, quantOutcome,
                   llmProvider, extractions,
                   options, now, firstRun>>

\* the options a caller passes: RequestOptionsSchema with generateMessage set
OptionsUniverse == {[generateMessage |-> TRUE], [generateMessage |-> FALSE]}

RecommendCall ==
    /\ pc = "scored"
    /\ \E o \in OptionsUniverse :
          /\ options' = o
          /\ recommendation' = generateActionRecommendation(scoringResult, enrichedSignals,
                                                             prospect, o, now)
    /\ pc' = "recommended"
    /\ UNCHANGED <<requests, libraryLoads,
                   signals, prospect, analyzedSignals, enrichedSignals, patterns,
                   scoringResult, knownPatterns, patternsFile, quantOutcome,
                   llmProvider, extractions, now, firstRun>>

NextScore == AddEnrichedSignal \/ AddPattern \/ ScoreCall \/ RecommendCall

SpecScore == InitScore /\ [][NextScore]_vars

(***************************************************************************)
(* calculateQuantitativeScore and analyzeSignal as functions of one        *)
(* arbitrary signal                                                        *)
(***************************************************************************)

EmptyObj == [f \in {} |-> f]

\* the objects that carry field f with one of vals, or do not carry it
Opt(f, vals) == {EmptyObj} \cup {f :> v : v \in vals}

Typed(type, fieldSets) == {[type |-> type] @@ o : o \in fieldSets}

Join(a, b) == {x @@ y : x \in a, y \in b}

WithMeta(objs, metas) ==
    objs \cup {o @@ [metadata |-> m] : o \in objs, m \in metas \ {EmptyObj}}

LinkedInUniverse ==
    Typed("linkedin_engagement",
        WithMeta(
            Join(Opt("action", {"commented", "connection_request", "share", "like",
                                "liked", "follow", "viewed"}),
                 Opt("content", {[length |-> 0, keywords |-> {}],
                                 [length |-> 12, keywords |-> {}],
                                 [length |-> 120, keywords |-> {"pricing", "struggling"}],
                                 [length |-> 260, keywords |-> {"struggling"}]})),
            Opt("postTopic", {Str("Sales Automation", {"sales", "automation"}), Str("cooking", {}), Str("", {}), Num(0), Num(42)})))

WebsiteUniverse ==
    Typed("website_visit",
        WithMeta(
            Join(Join(Opt("page", {{"/pricing", "pricing"}, {"/features", "features"},
                                   {"/blog", "blog"},
                                   {"/docs"}}),
                      Opt("duration", {0, 10, 45, 90, 200, 400})),
                 Join(Opt("visitNumber", {0, 1, 2, 3, 5}),
                      Opt("bounceRate", {50, 80, 95}))),
            Opt("tier_viewed", {"enterprise", "starter"})))

JobChangeUniverse ==
    Typed("job_change",
        WithMeta(
            Join(Opt("toRole", {{"vp"}, {"engineer"}}),
                 Opt("daysInRole", {0, 14, 15, 90, 91, 180, 181})),
            Join(Opt("seniorityIncrease", {TRUE, FALSE}),
                 Opt("companyStage", {"series_b", "public"}))))

ContentDownloadUniverse ==
    Typed("content_download",
        WithMeta(Opt("asset", {{"implementation", "guide"}, {"whitepaper"}, {"ebook"},
                               {"newsletter"}}),
                 Opt("topic", {Str("ROI", {"roi"}), Str("culture", {}), Num(7)})))

EmailUniverse ==
    Typed("email_interaction",
        WithMeta(Join(Opt("action", {"reply", "clicked", "opened", "bounced"}),
                      Opt("clickedLink", {TRUE, FALSE})),
                 Opt("linkType", {"calendar", "pricing", "blog"})))

CompanyNewsUniverse ==
    Typed("company_news",
        Join(Opt("newsType", {"funding", "expansion", "leadership_change", "acquisition",
                              "product_launch", "layoffs"}),
             Opt("details", {{"Series"}, {"seed"}})))

HiringUniverse ==
    Typed("hiring_signals",
        WithMeta({EmptyObj},
                 Join(Opt("department", {Str("sales", {"sales"}), Str("Sales", {"sales"}), Str("legal", {"legal"}), Num(3)}),
                      Opt("rolesCount", {0, 1, 2, 5}))))

TechStackUniverse ==
    Typed("tech_stack_change",
        WithMeta({EmptyObj},
                 Join(Opt("category", {"CRM", "sales", "analytics"}),
                      Opt("action", {"evaluation", "removed", "added"}))))

IntentUniverse ==
    Typed("intent_data",
        WithMeta({EmptyObj},
                 Opt("intent", {"competitor_comparison", "pricing_research",
                                "general_research", "hiring"})))

\* types outside the nine cases of the switch
UnknownTypeUniverse ==
    Typed("webinar_attendance", Join(Opt("action", {"commented"}), Opt("duration", {400})))
      \cup Typed("", {EmptyObj})

KnownTypes ==
    {"linkedin_engagement", "website_visit", "job_change", "content_download",
     "email_interaction", "company_news", "hiring_signals", "tech_stack_change",
     "intent_data"}

QuantSignalUniverse ==
    LinkedInUniverse \cup WebsiteUniverse \cup JobChangeUniverse
      \cup ContentDownloadUniverse \cup EmailUniverse \cup CompanyNewsUniverse
      \cup HiringUniverse \cup TechStackUniverse \cup IntentUniverse
      \cup UnknownTypeUniverse

\* signals of the universe with a timestamp (hours ago) added
Stamped(sigs, hours) == {s @@ [timestamp |-> h] : s \in sigs, h \in hours}

InitQuant ==
    /\ pc = "input"
    /\ signals \in {<<s>> : s \in QuantSignalUniverse
                               \cup Stamped(IntentUniverse, {-30, 5, 47, 49, 170, 800})}
    /\ prospect = None
    /\ analyzedSignals = <<>>
    /\ enrichedSignals = <<>>
    /\ patterns = <<>>
    /\ scoringResult = None
    /\ recommendation = None
    /\ knownPatterns = <<>>
    /\ patternsFile = [exists |-> FALSE]
    /\ quantOutcome = None
    /\ llmProvider = "mock"
    /\ extractions = <<>>
    /\ options = None
    /\ now = Epoch
    /\ firstRun = None
    /\ requests = <<>>
    /\ libraryLoads = 0

\* calculateQuantitativeScore(signal), seen from its caller
QuantCall ==
    /\ pc = "input"
    /\ quantOutcome' = IF QuantThrows(signals[1]) THEN TypeError
                       ELSE [returned |-> calculateQuantitativeScore(signals[1])]
    /\ pc' = "quantified"
    /\ UNCHANGED <<requests, libraryLoads,
                   signals, prospect, analyzedSignals, enrichedSignals, patterns,
                   scoringResult, recommendation, knownPatterns, patternsFile,
                   llmProvider, extractions,
                   options, now, firstRun>>

\* analyzeSignal(signal), allSignals left to its default []
AnalyzeOneCall ==
    /\ pc = "input"
    /\ ~QuantThrows(signals[1])
    /\ analyzedSignals' = <<analyzeSignal(signals[1], <<>>)>>
    /\ pc' = "analyzed"
    /\ UNCHANGED <<requests, libraryLoads,
                   signals, prospect, enrichedSignals, patterns, scoringResult,
                   recommendation, knownPatterns, patternsFile, quantOutcome,
                   llmProvider, extractions,
                   options, now, firstRun>>

NextQuant == QuantCall \/ AnalyzeOneCall

SpecQuant == InitQuant /\ [][NextQuant]_vars

(***************************************************************************)
(* identifyPatterns as a function of an arbitrary list of enriched         *)
(* signals and of the patterns file                                        *)
(***************************************************************************)

MaxMatchSignals == 4

\* a known-patterns.json other than the defaults
ConfiguredPatterns ==
    << [ id |-> "pricing_demo_visitor", name |-> "Pricing and Demo Visitor",
         requiredSignals |->
           << [type |-> "website_visit", page_includes |-> "pricing"] >>,
         optionalSignals |->
           << [type |-> "website_visit", page_includes |-> "demo"],
              [type |-> "email_interaction", action |-> "reply"] >>,
         historicalConversion |-> 60, avgDaysToClose |-> 20, confidence |-> 80,
         weight |-> 100 ],
       [ id |-> "repeat_visitor", name |-> "Repeat Visitor",
         requiredSignals |-> << [type |-> "website_visit", minVisits |-> 2] >>,
         \* avgDaysToClose: null
         historicalConversion |-> 40, confidence |-> 70, weight |-> 90 ] >>

PatternsFileUniverse ==
    { [exists |-> FALSE],
      [exists |-> TRUE, valid |-> FALSE],
      [exists |-> TRUE, valid |-> TRUE, data |-> ConfiguredPatterns] }

\* an analyzed signal after its enrichment with context ctx
Enriched(raw, ctx) == [analyzeSignal(raw, <<>>) EXCEPT !.qualitativeContext = ctx]

WithPainPoint(ctx) == [ctx EXCEPT !.painPoints = <<"manual data entry">>]

MatchSignalUniverse ==
    { Enriched([ type |-> "linkedin_engagement", action |-> "commented",
                 content |-> [length |-> 120, keywords |-> {"struggling"}] ],
               WithPainPoint(FullContext("high", "high", "consideration", "low"))),
      Enriched([ type |-> "linkedin_engagement", action |-> "liked" ],
               FullContext("low", "low", "awareness", "high")),
      Enriched([ type |-> "website_visit", page |-> {"/pricing", "pricing"},
                 duration |-> 200 ],
               FullContext("medium", "medium", "consideration", "low")),
      Enriched([ type |-> "website_visit",
                 page |-> {"/pricing", "pricing", "/demo", "demo"}, duration |-> 90 ],
               FullContext("high", "high", "decision", "low")),
      Enriched([ type |-> "website_visit", page |-> {"/blog", "blog"}, duration |-> 20,
                 bounceRate |-> 90 ],
               FullContext("low", "low", "awareness", "high")),
      Enriched([ type |-> "content_download", asset |-> {"implementation", "guide"} ],
               FullContext("medium", "high", "decision", "low")),
      Enriched([ type |-> "job_change", toRole |-> {"vp"}, daysInRole |-> 30 ],
               FullContext("medium", "medium", "consideration", "low")),
      Enriched([ type |-> "email_interaction", action |-> "reply" ],
               FullContext("high", "medium", "decision", "low")),
      Enriched([ type |-> "company_news", newsType |-> "funding", details |-> {"Series"} ],
               FullContext("medium", "medium", "consideration", "low")) }

InitMatch ==
    /\ pc = "input"
    /\ signals = <<>>
    /\ prospect = None
    /\ analyzedSignals = <<>>
    /\ enrichedSignals = <<>>
    /\ patterns = <<>>
    /\ scoringResult = None
    /\ recommendation = None
    /\ knownPatterns = <<>>
    /\ patternsFile \in PatternsFileUniverse
    /\ quantOutcome = None
    /\ llmProvider = "mock"
    /\ extractions = <<>>
    /\ options = None
    /\ now = Epoch
    /\ firstRun = None
    /\ requests = <<>>
    /\ libraryLoads = 0

\* identifyPatterns(enrichedSignals): the first call loads the library
IdentifyCall ==
    /\ pc = "input"
    /\ knownPatterns' = LibraryInUse(knownPatterns, patternsFile)
    /\ libraryLoads' = libraryLoads + LoadsBy(knownPatterns)
    /\ patterns' = identifyPatterns(enrichedSignals, knownPatterns, patternsFile)
    /\ pc' = "matched"
    /\ UNCHANGED <<requests, signals, prospect, analyzedSignals, enrichedSignals, scoringResult,
                   recommendation, patternsFile, quantOutcome,
                   llmProvider, extractions,
                   options, now, firstRun>>

\* identifyPatterns again, on the same list with one more signal
IdentifyWithOneMore ==
    /\ pc = "matched"
    /\ Len(enrichedSignals) < MaxMatchSignals
    /\ \E s \in MatchSignalUniverse :
          /\ enrichedSignals' = Append(enrichedSignals, s)
          /\ patterns' = identifyPatterns(Append(enrichedSignals, s), knownPatterns,
                                          patternsFile)
    /\ knownPatterns' = LibraryInUse(knownPatterns, patternsFile)
    /\ libraryLoads' = libraryLoads + LoadsBy(knownPatterns)
    /\ UNCHANGED <<requests, pc, signals, prospect, analyzedSignals, scoringResult, recommendation,
                   patternsFile, quantOutcome,
                   llmProvider, extractions,
                   options, now, firstRun>>

NextMatch == IdentifyCall \/ IdentifyWithOneMore

SpecMatch == InitMatch /\ [][NextMatch]_vars

(***************************************************************************)
(* POST /api/analyze: one request through the five steps of the route      *)
(***************************************************************************)

MaxSignals == 3

SignalUniverse ==
    { [ type |-> "linkedin_engagement", action |-> "commented",
        content |-> [length |-> 120, keywords |-> {"struggling"}], timestamp |-> 5 ],
      [ type |-> "website_visit", page |-> {"/pricing", "pricing"}, duration |-> 200,
        visitNumber |-> 3, timestamp |-> 30 ],
      [ type |-> "website_visit", page |-> {"/blog", "blog"}, duration |-> 5,
        bounceRate |-> 95, timestamp |-> 200 ],
      [ type |-> "content_download", asset |-> {"implementation", "guide"} ],
      [ type |-> "job_change", toRole |-> {"vp"}, daysInRole |-> 30, timestamp |-> 100 ],
      [ type |-> "linkedin_engagement", action |-> "like",
        metadata |-> [postTopic |-> Num(42)] ] }

ProspectUniverse ==
    { [company |-> "Acme", role |-> "decision_maker", industry |-> "saas",
       companySize |-> "50-200"],
      [company |-> "Initech", role |-> "other", email |-> {"@gmail.com"}] }

\* A request body is a list of up to MaxSignals signals, no two of them alike.
Init ==
    /\ pc = "received"
    /\ signals \in {body \in UNION {[1..n -> SignalUniverse] : n \in 1..MaxSignals} :
                       \A i, j \in 1..Len(body) : body[i] = body[j] => i = j}
    /\ prospect \in ProspectUniverse
    /\ analyzedSignals = <<>>
    /\ enrichedSignals = <<>>
    /\ patterns = <<>>
    /\ scoringResult = None
    /\ recommendation = None
    /\ knownPatterns = <<>>
    /\ patternsFile \in {[exists |-> FALSE],
                         [exists |-> TRUE, valid |-> TRUE, data |-> ConfiguredPatterns]}
    /\ quantOutcome = None
    /\ llmProvider \in {"mock", "anthropic"}
    /\ extractions = <<>>
    /\ options = None
    /\ now = Epoch
    /\ firstRun = None
    /\ requests = <<>>
    /\ libraryLoads = 0

\* A timestamp of the request body is a fixed date: the hours it lies before
\* the clock grow as the clock advances.
SeenAt(signalsIn, clock) ==
    [i \in 1..Len(signalsIn) |->
        IF Has(signalsIn[i], "timestamp")
        THEN [signalsIn[i] EXCEPT !.timestamp = @ + clock.hours]
        ELSE signalsIn[i]]

\* Step 1: analyzeSignals(signals)
AnalyzeSignals ==
    /\ pc = "received"
    /\ \A i \in 1..Len(signals) : ~QuantThrows(signals[i])
    /\ analyzedSignals' = analyzeSignals(SeenAt(signals, now))
    /\ pc' = "enriching"
    /\ UNCHANGED <<requests, libraryLoads,
                   signals, prospect, enrichedSignals, patterns, scoringResult,
                   recommendation, knownPatterns, patternsFile, quantOutcome,
                   llmProvider, extractions,
                   options, now, firstRun>>

\* Step 1 leaves with the exception of a scorer: next(error)
AnalyzeSignalsThrows ==
    /\ pc = "received"
    /\ \E i \in 1..Len(signals) : QuantThrows(signals[i])
    /\ pc' = "failed"
    /\ UNCHANGED <<requests, libraryLoads,
                   signals, prospect, analyzedSignals, enrichedSignals, patterns,
                   scoringResult, recommendation, knownPatterns, patternsFile,
                   quantOutcome, llmProvider, extractions,
                   options, now, firstRun>>

\* Step 2, one turn of the loop of enrichSignalsWithContext
EnrichSignal ==
    /\ pc = "enriching"
    /\ Len(enrichedSignals) < Len(analyzedSignals)
    /\ LET signal == analyzedSignals[Len(enrichedSignals) + 1]
       IN  \E outcome \in ExtractionOutcomes(llmProvider, signal, prospect) :
              /\ enrichedSignals' = Append(enrichedSignals, EnrichedOrAsIs(signal, outcome))
              /\ extractions' = Append(extractions, outcome)
    /\ UNCHANGED <<requests, libraryLoads,
                   pc, signals, prospect, analyzedSignals, patterns, scoringResult,
                   recommendation, knownPatterns, patternsFile, quantOutcome,
                   llmProvider,
                   options, now, firstRun>>

MutEnrichmentNotAwaited(analyzed, enriched) == TRUE

\* the for-of loop of enrichSignalsWithContext has pushed for every analyzed
\* signal: the promise the route awaits is resolved
LoopEnded(analyzed, enriched) == Len(enriched) = Len(analyzed)

\* Step 2 returns; Step 3: identifyPatterns(enrichedSignals)
IdentifyPatterns ==
    /\ pc = "enriching"
    /\ LoopEnded(analyzedSignals, enrichedSignals)
    /\ knownPatterns' = LibraryInUse(knownPatterns, patternsFile)
    /\ libraryLoads' = libraryLoads + LoadsBy(knownPatterns)
    /\ patterns' = identifyPatterns(enrichedSignals, knownPatterns, patternsFile)
    /\ pc' = "identified"
    /\ UNCHANGED <<requests, signals, prospect, analyzedSignals, enrichedSignals, scoringResult,
                   recommendation, patternsFile, quantOutcome, llmProvider,
                   extractions,
                   options, now, firstRun>>

\* Step 4: calculateQualityScore(enrichedSignals, patterns, prospect)
CalculateQualityScore ==
    /\ pc = "identified"
    /\ scoringResult' = calculateQualityScore(enrichedSignals, patterns, prospect)
    /\ pc' = "scoredRequest"
    /\ UNCHANGED <<requests, libraryLoads,
                   signals, prospect, analyzedSignals, enrichedSignals, patterns,
                   recommendation, knownPatterns, patternsFile, quantOutcome,
                   llmProvider, extractions,
                   options, now, firstRun>>

\* Step 5: generateActionRecommendation(...) and res.json(recommendation)
GenerateActionRecommendation ==
    /\ pc = "scoredRequest"
    /\ \E o \in OptionsUniverse :
          /\ options = None \/ options = o    \* req.body.options
          /\ options' = o
          /\ recommendation' = generateActionRecommendation(scoringResult, enrichedSignals,
                                                             prospect, o, now)
    \* res.json(recommendation), or the catch: next(error)
    /\ pc' = IF recommendation' = TypeError THEN "failed" ELSE "responded"
    /\ UNCHANGED <<requests, libraryLoads,
                   signals, prospect, analyzedSignals, enrichedSignals, patterns,
                   scoringResult, knownPatterns, patternsFile, quantOutcome,
                   llmProvider, extractions, now, firstRun>>

Next ==
    \/ AnalyzeSignals
    \/ AnalyzeSignalsThrows
    \/ EnrichSignal
    \/ IdentifyPatterns
    \/ CalculateQualityScore
    \/ GenerateActionRecommendation

Spec == Init /\ [][Next]_vars

(***************************************************************************)
(* The same request sent a second time to the same process, with the       *)
(* deterministic extraction (LLM_PROVIDER unset: extractWithMock)          *)
(***************************************************************************)

MaxTwiceSignals == 2

\* how much later the second request arrives: a millisecond, an hour, a day
Delays == { [hours |-> 0, millis |-> 1],
            [hours |-> 1, millis |-> 0],
            [hours |-> 24, millis |-> 0] }

InitTwice ==
    /\ Init
    /\ llmProvider = "mock"
    /\ Len(signals) <= MaxTwiceSignals

\* The client keeps the answer and posts the same body again: what the
\* process keeps between two requests is the cached pattern library.
Resubmit ==
    /\ pc = "responded"
    /\ firstRun = None
    /\ firstRun' = [ scoringResult |-> scoringResult,
                     recommendation |-> recommendation,
                     now |-> now ]
    /\ \E d \in Delays :
          now' = [hours |-> now.hours + d.hours, millis |-> now.millis + d.millis]
    /\ pc' = "received"
    /\ analyzedSignals' = <<>>
    /\ enrichedSignals' = <<>>
    /\ extractions' = <<>>
    /\ patterns' = <<>>
    /\ scoringResult' = None
    /\ recommendation' = None
    /\ UNCHANGED <<requests, libraryLoads,
                   signals, prospect, knownPatterns, patternsFile, quantOutcome,
                   llmProvider, options>>

NextTwice ==
    \/ AnalyzeSignals
    \/ AnalyzeSignalsThrows
    \/ EnrichSignal
    \/ IdentifyPatterns
    \/ CalculateQualityScore
    \/ GenerateActionRecommendation
    \/ Resubmit

SpecTwice == InitTwice /\ [][NextTwice]_vars

(***************************************************************************)
(* Properties                                                              *)
(***************************************************************************)

Scored == scoringResult # None

\* generateActionRecommendation has returned a recommendation
Recommended == recommendation # None /\ ~Has(recommendation, "threw")

HasFalsePositive ==
    \E i \in 1..Len(patterns) :
        Has(patterns[i], "isFalsePositive") /\ patterns[i].isFalsePositive

\* the score before the final clamp, recomputed from the returned components
UnclampedScore ==
    Round(scoringResult.components.signalScore * 4
          + scoringResult.components.patternScore * 4
          + scoringResult.components.fitScore * 2, 10)

\* C1: whenever the patterns given to calculateQualityScore hold a pattern with
\* isFalsePositive = true, the returned priorityLevel is 'ignore', whatever the
\* score and the other patterns are.
C1_FalsePositiveForcesIgnore ==
    (Scored /\ HasFalsePositive) => scoringResult.priorityLevel = "ignore"

C1_Witness ==
    /\ Scored
    /\ HasFalsePositive
    /\ Len(patterns) = 2
    /\ scoringResult.qualityScore >= 85
    /\ scoringResult.priorityLevel = "ignore"

\* C2: with no false-positive pattern, the returned priorityLevel is fixed by the
\* returned qualityScore (urgent iff >= 85, high iff 70..84, medium iff 50..69,
\* low iff 30..49, ignore iff < 30), and the recommendation stage hands on the
\* same priorityLevel.
C2_PriorityBands ==
    (Scored /\ ~HasFalsePositive) =>
        LET q  == scoringResult.qualityScore
            pr == scoringResult.priorityLevel
        IN  /\ pr \in {"urgent", "high", "medium", "low", "ignore"}
            /\ (pr = "urgent") <=> (q >= 85)
            /\ (pr = "high")   <=> (q >= 70 /\ q < 85)
            /\ (pr = "medium") <=> (q >= 50 /\ q < 70)
            /\ (pr = "low")    <=> (q >= 30 /\ q < 50)
            /\ (pr = "ignore") <=> (q < 30)
            /\ (Recommended => recommendation.priorityLevel = pr)

C2_Witness ==
    /\ Scored
    /\ ~HasFalsePositive
    /\ Recommended
    /\ scoringResult.qualityScore = 85
    /\ recommendation.priorityLevel = "urgent"

\* C3: the qualityScore returned by calculateQualityScore is within [0, 100] for
\* every list of signals, every list of patterns (weights above 100 and negative
\* weights included) and every prospect.
C3_QualityScoreInRange ==
    Scored => (scoringResult.qualityScore >= 0 /\ scoringResult.qualityScore <= 100)

C3_Witness ==
    /\ Scored
    /\ UnclampedScore > 100
    /\ scoringResult.qualityScore = 100

\* C4: calculateQuantitativeScore returns a number between 0 and 100 for every
\* signal, and exactly 50, without an exception, for a type outside the nine
\* known ones.
C4_QuantitativeScoreInRange ==
    pc = "quantified" =>
        /\ Has(quantOutcome, "returned")
        /\ quantOutcome.returned \in 0..100
        /\ signals[1].type \notin KnownTypes => quantOutcome.returned = 50

\* what holds of the calls that return
QuantReturnedInRange ==
    (pc = "quantified" /\ Has(quantOutcome, "returned")) =>
        /\ quantOutcome.returned \in 0..100
        /\ signals[1].type \notin KnownTypes => quantOutcome.returned = 50

QuantThrewOnlyOnNonStringMetadata ==
    (pc = "quantified" /\ Has(quantOutcome, "threw")) =>
        \E f \in {"postTopic", "topic", "department"} :
            Has(Meta(signals[1]), f) /\ Meta(signals[1])[f].kind = "number"

\* C5: every other score field of the result is within [0, 100] too: each
\* breakdown entry's score and the three component scores.
C5_AllScoreFieldsInRange ==
    Scored =>
        /\ \A i \in 1..Len(scoringResult.breakdown) :
              /\ scoringResult.breakdown[i].score >= 0
              /\ scoringResult.breakdown[i].score <= 100
        /\ scoringResult.components.signalScore >= 0
        /\ scoringResult.components.signalScore <= 100
        /\ scoringResult.components.patternScore >= 0
        /\ scoringResult.components.patternScore <= 100
        /\ scoringResult.components.fitScore >= 0
        /\ scoringResult.components.fitScore <= 100

IsMatched(ps, id) == \E k \in 1..Len(ps) : ps[k].pattern = id

MatchOf(ps, id) == ps[CHOOSE k \in 1..Len(ps) : ps[k].pattern = id]

\* the positions of the signals of es that satisfy the criterion
Satisfying(es, criteria) ==
    {k \in 1..Len(es) : signalMatchesCriteria(es[k], criteria)}

SeqRange(s) == {s[i] : i \in 1..Len(s)}

OptionalCriteria(pattern) ==
    IF Has(pattern, "optionalSignals") THEN SeqRange(pattern.optionalSignals) ELSE {}

OneMoreSignal == pc = "matched" /\ Len(enrichedSignals') = Len(enrichedSignals) + 1

AddedSignal == enrichedSignals'[Len(enrichedSignals')]

\* the optional criteria the added signal is the first to satisfy
NewlySatisfied(pattern) ==
    {j \in 1..Len(IF Has(pattern, "optionalSignals") THEN pattern.optionalSignals ELSE <<>>) :
        /\ signalMatchesCriteria(AddedSignal, pattern.optionalSignals[j])
        /\ Satisfying(enrichedSignals, pattern.optionalSignals[j]) = {}}

C8_StrictIncreaseAsStated ==
    [][OneMoreSignal =>
         \A i \in 1..Len(knownPatterns) :
            (\E c \in OptionalCriteria(knownPatterns[i]) :
                 signalMatchesCriteria(AddedSignal, c))
              => /\ IsMatched(patterns', knownPatterns[i].id)
                      <=> IsMatched(patterns, knownPatterns[i].id)
                 /\ IsMatched(patterns, knownPatterns[i].id)
                      => MatchOf(patterns', knownPatterns[i].id).matchScore
                           > MatchOf(patterns, knownPatterns[i].id).matchScore]_vars

\* C8: calling identifyPatterns again with one more signal keeps every matched
\* pattern matched and raises its matchScore by 10 for each optional criterion
\* the added signal is the first to satisfy (by nothing when there is none); a
\* pattern that did not match still does not when the added signal satisfies
\* none of its required criteria.
C8_OneMoreSignal ==
    [][OneMoreSignal =>
         \A i \in 1..Len(knownPatterns) :
            LET pattern == knownPatterns[i]
            IN  /\ IsMatched(patterns, pattern.id)
                     => /\ IsMatched(patterns', pattern.id)
                        /\ MatchOf(patterns', pattern.id).matchScore
                             = MatchOf(patterns, pattern.id).matchScore
                                 + 10 * Cardinality(NewlySatisfied(pattern))
                /\ (/\ ~IsMatched(patterns, pattern.id)
                    /\ \A c \in SeqRange(pattern.requiredSignals) :
                          ~signalMatchesCriteria(AddedSignal, c))
                     => ~IsMatched(patterns', pattern.id)]_vars

\* the last signal was the first to satisfy an optional criterion of a pattern
\* that matched before it came, and a later one of a kind already seen
C8_Witness ==
    /\ pc = "matched"
    /\ Len(enrichedSignals) >= 3
    /\ \E i \in 1..Len(knownPatterns) :
          LET pattern == knownPatterns[i]
              n == Len(enrichedSignals)
              before == SubSeq(enrichedSignals, 1, n - 1)
          IN  /\ IsMatched(patterns, pattern.id)
              /\ \A c \in SeqRange(pattern.requiredSignals) :
                    Cardinality(Satisfying(before, c))
                      >= (IF Has(c, "minVisits") THEN c.minVisits ELSE 1)
              /\ \E c \in OptionalCriteria(pattern) :
                    /\ signalMatchesCriteria(enrichedSignals[n], c)
                    /\ Satisfying(before, c) = {}
              /\ MatchOf(patterns, pattern.id).matchScore = 60

PatternById(id) ==
    knownPatterns[CHOOSE i \in 1..Len(knownPatterns) : knownPatterns[i].id = id]

\* the positions of the signals that satisfy a required or an optional criterion
SupportingSignals(pattern) ==
    UNION {Satisfying(enrichedSignals, c) :
             c \in SeqRange(pattern.requiredSignals) \cup OptionalCriteria(pattern)}

\* C9: the confidence of a matched pattern is pattern.confidence * min(1, k/4),
\* rounded to two decimals, k being the number of distinct signals that satisfy
\* one of its required or optional criteria; with k < 4 it is below the
\* configured confidence.
C9_ConfidenceFromDistinctSignals ==
    pc = "matched" =>
        \A m \in SeqRange(patterns) :
            LET pattern == PatternById(m.pattern)
                k == Cardinality(SupportingSignals(pattern))
            IN  /\ m.confidence = Round(pattern.confidence * Min(4, k), 4)
                /\ k < 4 => m.confidence < pattern.confidence

\* with the default library no signal is counted twice below four signals
ConfidenceFromDistinctSignalsByDefault ==
    (pc = "matched" /\ knownPatterns = getDefaultPatterns)
        => C9_ConfidenceFromDistinctSignals

\* enrichSignalsWithContext has returned
EnrichmentReturned == pc \in {"identified", "scoredRequest", "responded"}

\* C10: when the extraction of a signal fails, enrichSignalsWithContext still
\* returns a signal for each analyzed signal; the failed one is the analyzed
\* signal itself, its qualitativeContext the heuristic urgency alone; every
\* other signal has had its own extraction, merged over its analyzed context.
C10_FailedExtractionKeepsSignal ==
    /\ pc = "failed" => \E i \in 1..Len(signals) : QuantThrows(signals[i])
    /\ EnrichmentReturned =>
          /\ Len(enrichedSignals) = Len(analyzedSignals)
          /\ Len(extractions) = Len(analyzedSignals)
          /\ \A i \in 1..Len(analyzedSignals) :
                IF Has(extractions[i], "threw")
                THEN /\ enrichedSignals[i] = analyzedSignals[i]
                     /\ enrichedSignals[i].qualitativeContext
                          = [urgency |-> determineUrgency(signals[i])]
                ELSE /\ enrichedSignals[i].qualitativeContext
                          = extractions[i].returned @@ analyzedSignals[i].qualitativeContext
                     /\ [enrichedSignals[i] EXCEPT !.qualitativeContext = <<>>]
                          = [analyzedSignals[i] EXCEPT !.qualitativeContext = <<>>]

\* the first extraction failed, a later one gave a full context, and the
\* request was answered
C10_Witness ==
    /\ pc = "responded"
    /\ Len(analyzedSignals) = 3
    /\ Has(extractions[1], "threw")
    /\ DOMAIN enrichedSignals[1].qualitativeContext = {"urgency"}
    /\ Has(extractions[2], "returned")
    /\ Has(enrichedSignals[2].qualitativeContext, "painPoints")
    /\ Has(extractions[3], "threw")

\* the QualitativeContext shape: every field set, the enums respected,
\* confidence within [0, 1]
WellShaped(reply) ==
    /\ DOMAIN reply = {"painPoints", "urgency", "specificity", "buyingStage", "sentiment",
                       "falsePositiveRisk", "confidence"}
    /\ reply.urgency \in {"low", "medium", "high"}
    /\ reply.specificity \in {"low", "medium", "high"}
    /\ reply.buyingStage \in {"awareness", "consideration", "decision", "unknown"}
    /\ reply.sentiment \in {"positive", "negative", "neutral"}
    /\ reply.falsePositiveRisk \in {"low", "medium", "high"}
    /\ reply.confidence \in 0..100

\* C11: a reply that parses as JSON without having the QualitativeContext shape
\* counts as a failed enrichment: nothing of it is merged and the signal keeps
\* its analyzed, heuristic-only context.
C11_MalformedReplyIsFailure ==
    EnrichmentReturned =>
        \A i \in 1..Len(analyzedSignals) :
            (Has(extractions[i], "returned") /\ ~WellShaped(extractions[i].returned))
                => enrichedSignals[i] = analyzedSignals[i]


\* C12: for every well-formed request no stage raises an error: the request
\* never ends in the error handler, whatever the enrichment outcomes and the
\* matched patterns are.
C12_NoStageRaises == pc # "failed"

\* C13: the breakdown has one entry per enriched signal, in input order, and
\* entry i reports enriched signal i itself: its type, and the weight and the
\* score calculateSignalWeight computes for that same signal.
C13_BreakdownEntryIsOwnSignal ==
    Scored =>
        /\ Len(scoringResult.breakdown) = Len(enrichedSignals)
        /\ \A i \in 1..Len(enrichedSignals) :
              LET own == calculateSignalWeight(enrichedSignals[i], loadWeights)
                  entry == scoringResult.breakdown[i]
              IN  /\ entry.signal = enrichedSignals[i].type
                  /\ entry.weight = own.weight
                  /\ entry.score = own.finalScore

\* sum over the matched patterns of confidence (|| 0.5), in hundredths
TotalConfidence ==
    SumSeq([i \in 1..Len(patterns) |-> PatternConfidenceOrDefault(patterns[i])])

\* sum over the matched patterns of confidence x weight (|| 100)
TotalConfidenceTimesWeight ==
    SumSeq([i \in 1..Len(patterns) |->
        PatternConfidenceOrDefault(patterns[i]) * PatternWeightOrDefault(patterns[i])])

\* sum over the matched patterns of historicalConversion x confidence x weight
TotalWeightedConversion ==
    SumSeq([i \in 1..Len(patterns) |->
        patterns[i].historicalConversion * PatternConfidenceOrDefault(patterns[i])
            * PatternWeightOrDefault(patterns[i])])

\* x is the integer nearest to n / d (d > 0, halves upwards)
IsRounded(x, n, d) == 2 * d * x - d <= 2 * n /\ 2 * n < 2 * d * x + d

FixedNextSteps ==
    << "Add to passive nurture campaign",
       "Monitor for additional signals",
       "Wait for 3+ more qualifying signals before outreach" >>

\* C15: for priority ignore or low the recommendation is minimal: it has no
\* channel, no timing, no messaging angle and no suggested message, whatever
\* the options ask for, and its nextSteps are the three fixed steps nurture,
\* monitor, wait for more signals, in that order.
C15_MinimalRecommendation ==
    (Recommended /\ scoringResult.priorityLevel \in {"ignore", "low"}) =>
        LET action == recommendation.recommendedAction
        IN  /\ DOMAIN action \cap {"channel", "timing", "messagingAngle",
                                   "suggestedMessage"} = {}
            /\ DOMAIN recommendation \cap {"channel", "timing", "messagingAngle",
                                           "suggestedMessage"} = {}
            /\ Len(action.nextSteps) = 3
            /\ \A i \in 1..3 : /\ action.nextSteps[i].action = FixedNextSteps[i]
                               /\ action.nextSteps[i].priority = i

\* a low-priority prospect, a message asked for, none given
C15_Witness ==
    /\ Recommended
    /\ scoringResult.priorityLevel = "low"
    /\ options = [generateMessage |-> TRUE]
    /\ recommendation.recommendedAction.type = "monitor_and_enrich"
    /\ ~Has(recommendation.recommendedAction, "suggestedMessage")

FullRecommendation ==
    Recommended /\ scoringResult.priorityLevel \in {"medium", "high", "urgent"}

SomeVeryRecent == \E i \in 1..Len(enrichedSignals) :
                      enrichedSignals[i].temporalFactors.recency > 90

SomeHighUrgency == \E i \in 1..Len(enrichedSignals) : HighUrgency(enrichedSignals[i])

ConfidenceMultiplier ==
    CASE scoringResult.confidence = "high" -> 100
      [] scoringResult.confidence = "medium" -> 85
      [] OTHER -> 70

\* ((score/100)*0.4 + (c/100)*0.6) * m, or (score/100) * m, in hundredths, as
\* the exact fraction <<n, d>>
ExactConversion ==
    IF Len(scoringResult.patterns) > 0
    THEN << (4 * scoringResult.qualityScore
               + 6 * scoringResult.patterns[1].historicalConversion)
              * ConfidenceMultiplier, 1000 >>
    ELSE << scoringResult.qualityScore * ConfidenceMultiplier, 100 >>

\* Whenever a recommendation is returned its conversionProbability is a
\* hundredth nearest to the exact value of the formula (a value exactly halfway
\* between two hundredths goes to either of them) and lies in [0, 1].
ConversionWithinHalfAHundredth ==
    Recommended =>
        LET cp == recommendation.estimatedOutcome.conversionProbability
            n == ExactConversion[1]
            d == ExactConversion[2]
        IN  /\ 2 * d * cp - d <= 2 * n
            /\ 2 * n <= 2 * d * cp + d
            /\ cp >= 0 /\ cp <= 100

\* C17: on the minimal path and on the full path conversionProbability equals
\* ((score/100)*0.4 + (c/100)*0.6) * m rounded to two decimals when a pattern
\* matched, c being the historicalConversion of the first matched pattern, and
\* (score/100) * m rounded to two decimals when none matched, with m = 1.0,
\* 0.85, 0.7 for confidence high, medium, low; it lies in [0, 1].
C17_ConversionAsStated ==
    Recommended =>
        LET cp == recommendation.estimatedOutcome.conversionProbability
        IN  /\ IsRounded(cp, ExactConversion[1], ExactConversion[2])
            /\ cp >= 0 /\ cp <= 100

\* round(30 + (100 - score) * 0.5)
DaysToCloseFallback == Round(60 + (100 - scoringResult.qualityScore), 2)

\* C18: in every full recommendation estimatedDaysToClose is a number: the
\* avgDaysToClose of the top matched pattern if it has one, else
\* round(30 + (100 - score) * 0.5).
C18_DaysToCloseIsNumber ==
    FullRecommendation =>
        LET outcome == recommendation.estimatedOutcome
            ps == scoringResult.patterns
        IN  /\ Has(outcome, "estimatedDaysToClose")
            /\ outcome.estimatedDaysToClose =
                 IF Len(ps) > 0 /\ Has(ps[1], "avgDaysToClose")
                 THEN ps[1].avgDaysToClose
                 ELSE DaysToCloseFallback

\* Whenever no pattern matched, or the top pattern has an avgDaysToClose, the
\* full recommendation carries the number of C18.
DaysToCloseUnlessTopPatternHasNone ==
    (FullRecommendation
       /\ (Len(scoringResult.patterns) > 0
             => Has(scoringResult.patterns[1], "avgDaysToClose"))) =>
        /\ Has(recommendation.estimatedOutcome, "estimatedDaysToClose")
        /\ recommendation.estimatedOutcome.estimatedDaysToClose =
             IF Len(scoringResult.patterns) > 0
             THEN scoringResult.patterns[1].avgDaysToClose
             ELSE DaysToCloseFallback

\* the redFlags list of the recommendation: <<>> for a recommendation that
\* carries no such list
HasRedFlags(rec) == Has(rec.recommendedAction, "redFlags")

RedFlagsOf(rec) == IF HasRedFlags(rec) THEN rec.recommendedAction.redFlags ELSE <<>>

\* C19: whenever a false-positive pattern is among the matched patterns, the
\* recommendation returned contains a redFlags list with an entry that names
\* that pattern.
C19_RedFlagNamesFalsePositive ==
    (Recommended /\ HasFalsePositive) =>
        /\ HasRedFlags(recommendation)
        /\ \E i \in 1..Len(RedFlagsOf(recommendation)) :
             \E j \in 1..Len(patterns) :
                 /\ Has(patterns[j], "isFalsePositive") /\ patterns[j].isFalsePositive
                 /\ RedFlagsOf(recommendation)[i]
                      = [kind |-> "Matches false positive pattern",
                         name |-> patterns[j].name]

\* No recommendation that is returned ever names a false-positive pattern in
\* its red flags: with such a pattern matched the priority is 'ignore' and the
\* minimal recommendation has no redFlags.
FalsePositiveFlagNeverRaised ==
    Recommended =>
        /\ HasFalsePositive => ~HasRedFlags(recommendation)
        /\ \A i \in 1..Len(RedFlagsOf(recommendation)) :
               RedFlagsOf(recommendation)[i].kind # "Matches false positive pattern"

\* the second request has been answered
SecondRunAnswered == pc = "responded" /\ firstRun # None

\* a recommendation without the instant it was generated at
WithoutGeneratedAt(rec) == [rec EXCEPT !.metadata = [@ EXCEPT !.generatedAt = None]]

\* every stamped signal is as many whole days old at clock reading b as at a
SameAgeInDays(a, b) ==
    \A i \in 1..Len(signals) :
        Has(signals[i], "timestamp") =>
            DaysAgo(signals[i].timestamp + a.hours) = DaysAgo(signals[i].timestamp + b.hours)

\* C20 as stated: the second of two identical requests is answered with the
\* same QualityScoreResult and the same recommendation, byte for byte, whenever
\* the two runs happen.
C20_RerunIsIdentical ==
    SecondRunAnswered =>
        /\ scoringResult = firstRun.scoringResult
        /\ recommendation = firstRun.recommendation

\* C20 (amended): the second of two identical requests is answered with the
\* same QualityScoreResult and, apart from metadata.generatedAt, the same
\* recommendation, provided every signal is as many whole days old at the
\* second run as at the first: nothing the first run left behind is read.
C20_RerunAtSameAge ==
    (SecondRunAnswered /\ SameAgeInDays(firstRun.now, now)) =>
        /\ scoringResult = firstRun.scoringResult
        /\ WithoutGeneratedAt(recommendation) = WithoutGeneratedAt(firstRun.recommendation)

\* the second run an hour later, answered from the cached library of a
\* configured patterns file with a matched pattern, differing in generatedAt only
C20_Witness ==
    /\ SecondRunAnswered
    /\ now.hours = firstRun.now.hours + 1
    /\ patternsFile.exists
    /\ Len(patterns) > 0
    /\ SameAgeInDays(firstRun.now, now)
    /\ recommendation # firstRun.recommendation
    /\ WithoutGeneratedAt(recommendation) = WithoutGeneratedAt(firstRun.recommendation)

(***************************************************************************)
(* C21: the frequency of an analysed signal                                *)
(***************************************************************************)

\* C21: every AnalyzedSignal that analyzeSignal (called with or without
\* allSignals) or analyzeSignals produced has temporalFactors.frequency >= 1,
\* the signal counting itself.
C21_FrequencyAtLeastOne ==
    \A i \in 1..Len(analyzedSignals) :
        analyzedSignals[i].temporalFactors.frequency >= 1

\* analyzeSignals passes the whole list, the signal included: within a request
\* the frequency is at least 1 and at most the number of signals
FrequencyCountsItselfInRequest ==
    \A i \in 1..Len(analyzedSignals) :
        /\ analyzedSignals[i].temporalFactors.frequency >= 1
        /\ analyzedSignals[i].temporalFactors.frequency <= Len(signals)

(***************************************************************************)
(* One process serving several requests.  A handler of POST /api/analyze   *)
(* runs until its await and is resumed later, other handlers running in    *)
(* between; its locals (analyzedSignals, enrichedSignals, ...) live in its *)
(* own record of requests.  What the handlers share is the module state:   *)
(* knownPatterns, the patterns file, the provider and the clock.           *)
(***************************************************************************)

MaxAnalyzeRequests == 2
MaxPatternListings == 1
MaxClockHours == 24

\* the bodies a client posts
RequestUniverse ==
    { [ signals |-> << [ type |-> "website_visit", page |-> {"/blog", "blog"},
                         duration |-> 5, bounceRate |-> 95, timestamp |-> 200 ] >>,
        prospect |-> [company |-> "Initech", role |-> "other", email |-> {"@gmail.com"}],
        options |-> [generateMessage |-> FALSE] ],
      [ signals |-> << [ type |-> "linkedin_engagement", action |-> "commented",
                         content |-> [length |-> 120, keywords |-> {"struggling"}],
                         timestamp |-> 5 ],
                       [ type |-> "website_visit", page |-> {"/pricing", "pricing"},
                         duration |-> 200, visitNumber |-> 3, timestamp |-> 30 ] >>,
        prospect |-> [company |-> "Acme", role |-> "decision_maker",
                      industry |-> "saas", companySize |-> "50-200"],
        options |-> [generateMessage |-> TRUE] ],
      [ signals |-> << [ type |-> "linkedin_engagement", action |-> "like",
                         metadata |-> [postTopic |-> Num(42)] ] >>,
        prospect |-> [company |-> "Acme", role |-> "decision_maker",
                      industry |-> "saas", companySize |-> "50-200"],
        options |-> [generateMessage |-> TRUE] ] }

\* the requests of one kind received so far
OfKind(reqs, kind) == {r \in 1..Len(reqs) : reqs[r].kind = kind}

InitServer ==
    /\ pc = "serving"
    /\ signals = <<>>
    /\ prospect = None
    /\ analyzedSignals = <<>>
    /\ enrichedSignals = <<>>
    /\ patterns = <<>>
    /\ scoringResult = None
    /\ recommendation = None
    /\ knownPatterns = <<>>
    /\ patternsFile \in {[exists |-> FALSE],
                         [exists |-> TRUE, valid |-> TRUE, data |-> ConfiguredPatterns]}
    /\ quantOutcome = None
    /\ llmProvider \in {"mock", "anthropic"}
    /\ extractions = <<>>
    /\ options = None
    /\ now = Epoch
    /\ firstRun = None
    /\ requests = <<>>
    /\ libraryLoads = 0

\* a day passes between two turns of the event loop
Tick ==
    /\ now.hours + 24 <= MaxClockHours
    /\ now' = [now EXCEPT !.hours = @ + 24]
    /\ UNCHANGED <<pc, signals, prospect, analyzedSignals, enrichedSignals, patterns,
                   scoringResult, recommendation, knownPatterns, patternsFile,
                   quantOutcome, llmProvider, extractions, options, firstRun,
                   requests, libraryLoads>>

\* POST /api/analyze arrives: the handler runs step 1 and enters the loop of
\* enrichSignalsWithContext, or leaves with the exception of a scorer
PostAnalyze ==
    /\ Cardinality(OfKind(requests, "analyze")) < MaxAnalyzeRequests
    /\ \E body \in RequestUniverse :
          LET threw == \E i \in 1..Len(body.signals) : QuantThrows(body.signals[i])
          IN  requests' = Append(requests,
                [ kind |-> "analyze",
                  pc |-> IF threw THEN "failed" ELSE "enriching",
                  signals |-> body.signals,
                  prospect |-> body.prospect,
                  options |-> body.options,
                  startedAt |-> now,
                  finishedAt |-> None,
                  analyzedSignals |-> IF threw THEN <<>>
                                      ELSE analyzeSignals(SeenAt(body.signals, now)),
                  enrichedSignals |-> <<>>,
                  extractions |-> <<>>,
                  patterns |-> <<>>,
                  scoringResult |-> None,
                  recommendation |-> None ])
    /\ UNCHANGED <<pc, signals, prospect, analyzedSignals, enrichedSignals, patterns,
                   scoringResult, recommendation, knownPatterns, patternsFile,
                   quantOutcome, llmProvider, extractions, options, now, firstRun,
                   libraryLoads>>

\* one turn of the loop of enrichSignalsWithContext in the handler of request
\* r: the extraction it awaited has ended and the signal is pushed
EnrichTurn(r) ==
    /\ requests[r].kind = "analyze"
    /\ requests[r].pc = "enriching"
    /\ Len(requests[r].enrichedSignals) < Len(requests[r].analyzedSignals)
    /\ LET signal == requests[r].analyzedSignals[Len(requests[r].enrichedSignals) + 1]
       IN  \E outcome \in ExtractionOutcomes(llmProvider, signal, requests[r].prospect) :
              requests' = [requests EXCEPT
                  ![r].enrichedSignals = Append(@, EnrichedOrAsIs(signal, outcome)),
                  ![r].extractions = Append(@, outcome)]
    /\ UNCHANGED <<pc, signals, prospect, analyzedSignals, enrichedSignals, patterns,
                   scoringResult, recommendation, knownPatterns, patternsFile,
                   quantOutcome, llmProvider, extractions, options, now, firstRun,
                   libraryLoads>>

\* the handler of request r is resumed after its await and runs steps 3 to 5
\* and res.json without another suspension
FinishAnalyze(r) ==
    /\ requests[r].kind = "analyze"
    /\ requests[r].pc = "enriching"
    /\ LoopEnded(requests[r].analyzedSignals, requests[r].enrichedSignals)
    /\ LET es == requests[r].enrichedSignals
           ps == identifyPatterns(es, knownPatterns, patternsFile)
           sr == calculateQualityScore(es, ps, requests[r].prospect)
           rec == generateActionRecommendation(sr, es, requests[r].prospect,
                                               requests[r].options, now)
       IN  requests' = [requests EXCEPT
               ![r].patterns = ps,
               ![r].scoringResult = sr,
               ![r].recommendation = rec,
               ![r].finishedAt = now,
               ![r].pc = IF rec = TypeError THEN "failed" ELSE "responded"]
    /\ knownPatterns' = LibraryInUse(knownPatterns, patternsFile)
    /\ libraryLoads' = libraryLoads + LoadsBy(knownPatterns)
    /\ UNCHANGED <<pc, signals, prospect, analyzedSignals, enrichedSignals, patterns,
                   scoringResult, recommendation, patternsFile, quantOutcome,
                   llmProvider, extractions, options, now, firstRun>>

\* GET /api/patterns: loadKnownPatterns() and the fixed list of four
GetPatterns ==
    /\ Cardinality(OfKind(requests, "patterns")) < MaxPatternListings
    /\ knownPatterns' = loadKnownPatterns(patternsFile)
    /\ libraryLoads' = libraryLoads + 1
    /\ requests' = Append(requests, [kind |-> "patterns", pc |-> "responded"])
    /\ UNCHANGED <<pc, signals, prospect, analyzedSignals, enrichedSignals, patterns,
                   scoringResult, recommendation, patternsFile, quantOutcome,
                   llmProvider, extractions, options, now, firstRun>>

NextServer ==
    \/ Tick
    \/ PostAnalyze
    \/ \E r \in 1..Len(requests) : EnrichTurn(r)
    \/ \E r \in 1..Len(requests) : FinishAnalyze(r)
    \/ GetPatterns

SpecServer == InitServer /\ [][NextServer]_vars

(***************************************************************************)
(* C22: the pattern library is loaded once                                 *)
(***************************************************************************)

\* C22: across any sequence of analyze and pattern-listing requests served by
\* one process the pattern library is read from its configuration source at
\* most once, the cached library never being assigned again after that load.
C22_LibraryLoadedOnce == libraryLoads <= 1

\* requests of analyze alone load the library once: the first identifyPatterns
\* fills the cache and every later one finds it filled
AnalyzeAloneLoadsOnce ==
    OfKind(requests, "patterns") = {} => libraryLoads <= 1

(***************************************************************************)
(* C23: the stages of one request run in order                             *)
(***************************************************************************)

\* nothing of a stage later than enrichment exists yet
NothingAfterEnrichment ==
    /\ patterns = <<>>
    /\ scoringResult = None
    /\ recommendation = None

\* every signal of the request has had one extraction, in the order of the
\* list, and its enriched signal is what that one extraction left
EachSignalEnrichedOnce ==
    /\ Len(analyzedSignals) = Len(signals)
    /\ Len(extractions) = Len(signals)
    /\ Len(enrichedSignals) = Len(signals)
    /\ \A i \in 1..Len(signals) :
          enrichedSignals[i] = EnrichedOrAsIs(analyzedSignals[i], extractions[i])

\* C23: within one analyze request the stages run in the order analyse,
\* enrich, match patterns, score, recommend, each on the full output of the
\* one before: while signals are being enriched no later stage has produced
\* anything, and once pattern matching has run every signal has had exactly
\* one extraction, ended well or not, the patterns are those of the full
\* enriched list, the score is that of these patterns, and the recommendation
\* exists only beside its score.
C23_StagesInOrder ==
    /\ pc = "received" =>
          /\ analyzedSignals = <<>> /\ enrichedSignals = <<>> /\ extractions = <<>>
          /\ NothingAfterEnrichment
    /\ pc = "enriching" =>
          /\ Len(analyzedSignals) = Len(signals)
          /\ Len(enrichedSignals) = Len(extractions)
          /\ Len(extractions) <= Len(signals)
          /\ NothingAfterEnrichment
    /\ pc \in {"identified", "scoredRequest", "responded"} =>
          /\ EachSignalEnrichedOnce
          /\ patterns = identifyPatterns(enrichedSignals, knownPatterns, patternsFile)
    /\ pc = "identified" => scoringResult = None /\ recommendation = None
    /\ pc = "scoredRequest" =>
          /\ scoringResult = calculateQualityScore(enrichedSignals, patterns, prospect)
          /\ recommendation = None
    /\ pc = "responded" =>
          /\ scoringResult = calculateQualityScore(enrichedSignals, patterns, prospect)
          /\ recommendation # None
          /\ recommendation.qualityScore = scoringResult.qualityScore

\* a request of three signals answered after one extraction that failed and
\* one that returned
C23_Witness ==
    /\ pc = "responded"
    /\ Len(signals) = 3
    /\ EachSignalEnrichedOnce
    /\ \E i \in 1..3 : Has(extractions[i], "threw")
    /\ \E i \in 1..3 : Has(extractions[i], "returned")

(***************************************************************************)
(* C24: a third visit against a first visit                                *)
(***************************************************************************)

\* the same website visit as a first visit
AsFirstVisit(signal) == [signal EXCEPT !.visitNumber = 1]

\* the call of calculateQuantitativeScore has returned the score of a website
\* visit with visitNumber = 3
ThirdVisitScored ==
    /\ quantOutcome # None
    /\ Has(quantOutcome, "returned")
    /\ signals[1].type = "website_visit"
    /\ Has(signals[1], "visitNumber")
    /\ signals[1].visitNumber = 3

\* C24 as stated: of two website_visit signals that differ in visitNumber
\* only, the one with visitNumber = 3 scores strictly higher than the one with
\* visitNumber = 1, whatever the page, duration, bounceRate and tier.
C24_ThirdVisitStrictlyHigher ==
    ThirdVisitScored =>
        quantOutcome.returned > calculateQuantitativeScore(AsFirstVisit(signals[1]))

\* C24 (amended): the third visit never scores lower than the first visit and
\* at most 15 higher; it scores strictly higher unless the first visit already
\* has the score 100, and then both have 100.
C24_ThirdVisitHigherUnlessSaturated ==
    ThirdVisitScored =>
        LET first == calculateQuantitativeScore(AsFirstVisit(signals[1]))
            third == quantOutcome.returned
        IN  /\ third >= first
            /\ third <= first + 15
            /\ first < 100 => third > first
            /\ first = 100 => third = 100

\* a third visit of the pricing page scored 100, as its first visit would be
C24_Witness ==
    /\ ThirdVisitScored
    /\ quantOutcome.returned = 100
    /\ calculateQuantitativeScore(AsFirstVisit(signals[1])) = 100

\* a third visit scored strictly higher than its first visit would be, even
\* where the first visit is clamped at 0
ThirdVisitAboveClampedFirst ==
    /\ ThirdVisitScored
    /\ calculateQuantitativeScore(AsFirstVisit(signals[1])) = 0
    /\ quantOutcome.returned > 0

(***************************************************************************)
(* temporal.ts: calculateVelocity, and analyzeSignals on lists long enough *)
(* for a velocity.  Times are whole hours, so that differenceInHours of    *)
(* two of them is their exact difference.                                  *)
(***************************************************************************)

\* intervals between consecutive entries of a sorted list
Intervals(sorted) == [i \in 1..(Len(sorted) - 1) |-> sorted[i + 1] - sorted[i]]

\* calculateVelocity(timestamps).  With two timestamps midpoint is 0 and
\* firstHalfAvg is 0 / 0 = NaN: both comparisons are false.
calculateVelocity(timestamps) ==
    IF Len(timestamps) < 2 THEN "stable"
    ELSE LET intervals == Intervals(SortAsc(timestamps))
             midpoint == Len(intervals) \div 2
             firstSum == SumSeq(SubSeq(intervals, 1, midpoint))
             secondSum == SumSeq(SubSeq(intervals, midpoint + 1, Len(intervals)))
             rest == Len(intervals) - midpoint
         IN  IF midpoint = 0 THEN "stable"
             \* secondSum / rest < (firstSum / midpoint) * 0.7
             ELSE IF 10 * secondSum * midpoint < 7 * firstSum * rest THEN "increasing"
             ELSE IF 10 * secondSum * midpoint > 13 * firstSum * rest THEN "decreasing"
             ELSE "stable"

MaxVelocitySignals == 4

\* signals of two types, seen at four distances from now
VelocitySignalUniverse ==
    { [type |-> t, timestamp |-> h] : t \in {"intent_data", "tech_stack_change"},
                                      h \in {0, 10, 11, 21} }

InitVelocity ==
    /\ pc = "input"
    /\ signals \in UNION {[1..n -> VelocitySignalUniverse] : n \in 1..MaxVelocitySignals}
    /\ prospect = None
    /\ analyzedSignals = <<>>
    /\ enrichedSignals = <<>>
    /\ patterns = <<>>
    /\ scoringResult = None
    /\ recommendation = None
    /\ knownPatterns = <<>>
    /\ patternsFile = [exists |-> FALSE]
    /\ quantOutcome = None
    /\ llmProvider = "mock"
    /\ extractions = <<>>
    /\ options = None
    /\ now = Epoch
    /\ firstRun = None
    /\ requests = <<>>
    /\ libraryLoads = 0

\* analyzeSignals(signals)
AnalyzeAllCall ==
    /\ pc = "input"
    /\ analyzedSignals' = analyzeSignals(signals)
    /\ pc' = "analyzed"
    /\ UNCHANGED <<signals, prospect, enrichedSignals, patterns, scoringResult,
                   recommendation, knownPatterns, patternsFile, quantOutcome,
                   llmProvider, extractions, options, now, firstRun, requests,
                   libraryLoads>>

NextVelocity == AnalyzeAllCall

SpecVelocity == InitVelocity /\ [][NextVelocity]_vars

(***************************************************************************)
(* C25: the velocity of an analysed signal                                 *)
(***************************************************************************)

\* the timestamps of the signals of the request that have the type of signal i
SameTypeTimes(i) == TimesOf(SelectSeq2(signals, signals[i].type))

\* C25: the velocity stored in temporalFactors is the velocity rule
\* (calculateVelocity: sorted timestamps, mean of the first half of the gaps
\* against the mean of the second half) applied to the timestamps of the
\* same-type signals of the request, and stable below three timestamps.
C25_VelocityIsCalculateVelocity ==
    \A i \in 1..Len(analyzedSignals) :
        /\ analyzedSignals[i].temporalFactors.velocity = calculateVelocity(SameTypeTimes(i))
        /\ Len(SameTypeTimes(i)) < 3 => analyzedSignals[i].temporalFactors.velocity = "stable"

\* up to three same-type timestamps the two computations agree: there are at
\* most two gaps, the first and the last
VelocityAgreesUpToThree ==
    \A i \in 1..Len(analyzedSignals) :
        Len(SameTypeTimes(i)) <= 3 =>
            analyzedSignals[i].temporalFactors.velocity = calculateVelocity(SameTypeTimes(i))

(***************************************************************************)
(* C26: requests served side by side                                       *)
(***************************************************************************)

\* the handler of request r has run to its end (res.json or next(error))
Answered(r) == requests[r].kind = "analyze" /\ requests[r].finishedAt # None

\* What the request gets when it runs alone in a process that has served
\* nothing before (empty cache, same patterns file and provider), its
\* extractions ending as they did and its clock read as it was.
AloneEnriched(req) ==
    LET analyzed == analyzeSignals(SeenAt(req.signals, req.startedAt))
    IN  [i \in 1..Len(analyzed) |-> EnrichedOrAsIs(analyzed[i], req.extractions[i])]

AlonePatterns(req) == identifyPatterns(AloneEnriched(req), <<>>, patternsFile)

AloneScoringResult(req) ==
    calculateQualityScore(AloneEnriched(req), AlonePatterns(req), req.prospect)

AloneRecommendation(req) ==
    generateActionRecommendation(AloneScoringResult(req), AloneEnriched(req),
                                 req.prospect, req.options, req.finishedAt)

\* C26: however the handlers of several analyze requests and of pattern
\* listings interleave at the awaits, every analyze request is answered with
\* exactly what it would get alone in a fresh process with the same
\* configuration; a request that fails in step 1 fails alone as well.
C26_RequestsAreIsolated ==
    \A r \in 1..Len(requests) :
        /\ Answered(r) =>
              /\ requests[r].patterns = AlonePatterns(requests[r])
              /\ requests[r].scoringResult = AloneScoringResult(requests[r])
              /\ requests[r].recommendation = AloneRecommendation(requests[r])
        /\ (requests[r].kind = "analyze" /\ requests[r].pc = "failed"
              /\ requests[r].finishedAt = None) =>
              \E i \in 1..Len(requests[r].signals) : QuantThrows(requests[r].signals[i])

\* The first request is suspended in its loop with one signal enriched and one
\* to go, while a request that arrived after it, and after a pattern listing,
\* has been answered from the cached library with a matched pattern.
C26_Witness ==
    /\ Len(requests) = 3
    /\ requests[1].kind = "analyze"
    /\ requests[1].pc = "enriching"
    /\ Len(requests[1].enrichedSignals) = 1
    /\ Len(requests[1].analyzedSignals) = 2
    /\ requests[2].kind = "patterns"
    /\ Answered(3)
    /\ requests[3].pc = "responded"
    /\ Len(requests[3].patterns) > 0
    /\ libraryLoads = 1

\* two requests answered one after the other, the second from the cache the
\* first one filled
SecondServedFromCache ==
    /\ Len(requests) = 2
    /\ Answered(1) /\ Answered(2)
    /\ requests[2].pc = "responded"
    /\ Len(requests[2].patterns) > 0
    /\ libraryLoads = 1

(***************************************************************************)
(* C27: what enrichment and the later stages leave of a signal             *)
(***************************************************************************)

\* the fields of an analyzed signal other than its qualitativeContext
SameButContext(a, b) ==
    /\ DOMAIN a = DOMAIN b
    /\ a.type = b.type
    /\ a.rawData = b.rawData
    /\ a.quantitativeScore = b.quantitativeScore
    /\ a.temporalFactors = b.temporalFactors

\* C27: the list enrichSignalsWithContext builds has, in the order of its
\* input, one element per analyzed signal with the same type, rawData,
\* quantitativeScore and temporalFactors, differing at most in
\* qualitativeContext; the analyzed list is still what analyzeSignals
\* returned, and through pattern matching, scoring and recommendation every
\* enriched signal is still what its extraction left.
C27_EnrichmentChangesContextOnly ==
    /\ Len(enrichedSignals) <= Len(analyzedSignals)
    /\ \A i \in 1..Len(enrichedSignals) :
          /\ SameButContext(enrichedSignals[i], analyzedSignals[i])
          /\ enrichedSignals[i] = EnrichedOrAsIs(analyzedSignals[i], extractions[i])
    /\ analyzedSignals # <<>> => analyzedSignals = analyzeSignals(SeenAt(signals, now))
    /\ pc \in {"identified", "scoredRequest", "responded"} =>
          Len(enrichedSignals) = Len(analyzedSignals)

\* a request answered after an extraction that changed the context of its
\* signal and one that failed and left its signal as it was
C27_Witness ==
    /\ pc = "responded"
    /\ \E i \in 1..Len(enrichedSignals) :
          /\ Has(extractions[i], "returned")
          /\ enrichedSignals[i].qualitativeContext # analyzedSignals[i].qualitativeContext
    /\ \E i \in 1..Len(enrichedSignals) :
          /\ Has(extractions[i], "threw")
          /\ enrichedSignals[i] = analyzedSignals[i]

(***************************************************************************)
(* C28: a false-positive verdict and the signals that come after it        *)
(***************************************************************************)

\* the enriched signals of a request of signals sigs under extractWithMock
MockEnriched(sigs, p) ==
    LET analyzed == analyzeSignals(SeenAt(sigs, now))
    IN  [i \in 1..Len(analyzed) |->
            EnrichedOrAsIs(analyzed[i],
                           [returned |-> extractWithMock(analyzed[i].rawData, p)])]

\* the ids of the false-positive patterns the pipeline matches on sigs
FalsePositivesOf(sigs, p) ==
    LET ps == identifyPatterns(MockEnriched(sigs, p), <<>>, patternsFile)
    IN  {ps[i].pattern : i \in {j \in 1..Len(ps) : ps[j].isFalsePositive}}

\* the lengths k of the proper prefixes S of the request's signals on which
\* the pipeline runs through and matches a false-positive pattern
FlaggedPrefixes ==
    {k \in 1..(Len(signals) - 1) :
        /\ \A i \in 1..k : ~QuantThrows(signals[i])
        /\ FalsePositivesOf(SubSeq(signals, 1, k), prospect) # {}}

\* C28: with the deterministic extraction, when the pipeline run on a list S
\* matches a false-positive pattern, the pipeline run on S followed by any
\* further signals T matches that pattern as well and returns the
\* priorityLevel 'ignore'.
C28_FalsePositiveVerdictIsPermanent ==
    (llmProvider = "mock" /\ FlaggedPrefixes # {}) =>
        /\ pc # "failed"
        /\ pc \in {"identified", "scoredRequest", "responded"} =>
              \A k \in FlaggedPrefixes :
                  \A id \in FalsePositivesOf(SubSeq(signals, 1, k), prospect) :
                      IsMatched(patterns, id)
        /\ Scored => scoringResult.priorityLevel = "ignore"
        /\ Recommended => recommendation.priorityLevel = "ignore"

\* whenever the run on S followed by T returns, the verdict on S has stayed
FalsePositiveVerdictStaysWhenReturned ==
    (llmProvider = "mock" /\ FlaggedPrefixes # {}) =>
        /\ pc \in {"identified", "scoredRequest", "responded"} =>
              \A k \in FlaggedPrefixes :
                  \A id \in FalsePositivesOf(SubSeq(signals, 1, k), prospect) :
                      IsMatched(patterns, id)
        /\ Scored => scoringResult.priorityLevel = "ignore"
        /\ Recommended => recommendation.priorityLevel = "ignore"
        /\ pc = "failed" => \E i \in 1..Len(signals) : QuantThrows(signals[i])

\* a request answered 'ignore' whose first signal alone is flagged and whose
\* later signals are a comment and a third visit of the pricing page
StrongSignalsAfterFalsePositive ==
    /\ llmProvider = "mock"
    /\ pc = "responded"
    /\ Len(signals) = 3
    /\ 1 \in FlaggedPrefixes
    /\ signals[2].type = "linkedin_engagement"
    /\ signals[3].type = "website_visit" /\ Has(signals[3], "visitNumber")
    /\ recommendation.priorityLevel = "ignore"

(***************************************************************************)
(* C29: the timings a recommendation can carry                             *)
(***************************************************************************)

\* the recommendation carries a timing
HasTiming == Recommended /\ Has(recommendation.recommendedAction, "timing")

\* C29: a recommendation made from a result of calculateQualityScore never
\* carries the timing no_rush: a timing is carried exactly for priority
\* medium, high or urgent, it is within_24h, within_48h or within_week, and for
\* priority urgent it is within_24h.
C29_NoRushNeverEmitted ==
    Recommended =>
        /\ HasTiming <=> scoringResult.priorityLevel \in {"medium", "high", "urgent"}
        /\ HasTiming =>
              /\ recommendation.recommendedAction.timing
                    \in {"within_24h", "within_48h", "within_week"}
              /\ recommendation.priorityLevel = "urgent" =>
                    recommendation.recommendedAction.timing = "within_24h"

\* the lowest score that carries a timing: priority medium, within_week, with
\* no signal both recent and urgent to lift it
C29_Witness ==
    /\ HasTiming
    /\ recommendation.priorityLevel = "medium"
    /\ scoringResult.qualityScore < 60
    /\ recommendation.recommendedAction.timing = "within_week"

\* priority urgent from a score of 85 or more, answered within_24h
UrgentWithin24h ==
    /\ HasTiming
    /\ recommendation.priorityLevel = "urgent"
    /\ recommendation.recommendedAction.timing = "within_24h"

(***************************************************************************)
(* Requests of LinkedIn engagements with and without content, enriched by  *)
(* extractWithMock and matched against the default library                 *)
(***************************************************************************)

MaxMockSignals == 2

MockSignalUniverse ==
    Typed("linkedin_engagement",
          Join(Opt("action", {"commented", "like"}),
               Opt("content", {[length |-> 0, keywords |-> {}],
                               [length |-> 12, keywords |-> {}],
                               [length |-> 120, keywords |-> {"pricing", "struggling"}],
                               [length |-> 260, keywords |-> {}]})))
      \cup { [ type |-> "website_visit", page |-> {"/pricing", "pricing"},
               duration |-> 200, visitNumber |-> 3, timestamp |-> 30 ],
             [ type |-> "content_download", asset |-> {"implementation", "guide"} ] }

InitMock ==
    /\ pc = "received"
    /\ signals \in UNION {[1..n -> MockSignalUniverse] : n \in 1..MaxMockSignals}
    /\ prospect \in ProspectUniverse
    /\ analyzedSignals = <<>>
    /\ enrichedSignals = <<>>
    /\ patterns = <<>>
    /\ scoringResult = None
    /\ recommendation = None
    /\ knownPatterns = <<>>
    /\ patternsFile = [exists |-> FALSE]
    /\ quantOutcome = None
    /\ llmProvider = "mock"
    /\ extractions = <<>>
    /\ options = None
    /\ now = Epoch
    /\ firstRun = None
    /\ requests = <<>>
    /\ libraryLoads = 0

NextMock ==
    \/ AnalyzeSignals
    \/ EnrichSignal
    \/ IdentifyPatterns

SpecMock == InitMock /\ [][NextMock]_vars

(***************************************************************************)
(* C30: pain points under the deterministic extraction                     *)
(***************************************************************************)

\* the required and the optional criteria of the library in use that ask for
\* pain points
PainPointCriteria ==
    LET library == LibraryInUse(knownPatterns, patternsFile)
    IN  UNION { {c \in SeqRange(library[i].requiredSignals) \cup OptionalCriteria(library[i]) :
                    Has(c, "painPoint") /\ c.painPoint} : i \in 1..Len(library) }

\* the criterion without its demand for pain points
WithoutPainPoint(c) == [f \in DOMAIN c \ {"painPoint"} |-> c[f]]

\* C30: under extractWithMock every enriched signal has a non-empty
\* painPoints list, a placeholder standing in when no pain keyword was found,
\* so that a criterion asking for pain points is satisfied by every signal
\* that satisfies the rest of it: by every signal of its type when it asks for
\* nothing else, signals without any content included.
C30_MockAlwaysHasPainPoints ==
    \A i \in 1..Len(enrichedSignals) :
        /\ Has(enrichedSignals[i].qualitativeContext, "painPoints")
        /\ Len(enrichedSignals[i].qualitativeContext.painPoints) > 0
        /\ \A c \in PainPointCriteria :
              /\ signalMatchesCriteria(enrichedSignals[i], c)
                    <=> signalMatchesCriteria(enrichedSignals[i], WithoutPainPoint(c))
              /\ (DOMAIN c = {"type", "painPoint"} /\ enrichedSignals[i].type = c.type)
                    => signalMatchesCriteria(enrichedSignals[i], c)

\* a like without any content beside a pricing visit: the placeholder alone
\* makes Active Evaluator with Budget match
C30_Witness ==
    /\ pc = "identified"
    /\ Len(signals) = 2
    /\ signals[1].type = "linkedin_engagement"
    /\ ~Has(signals[1], "content")
    /\ Has(signals[1], "action") /\ signals[1].action = "like"
    /\ enrichedSignals[1].qualitativeContext.painPoints = <<"Engagement indicates interest">>
    /\ signals[2].type = "website_visit"
    /\ IsMatched(patterns, "active_evaluator_with_budget")
=============================================================================
